---- MODULE Spec2Model ----
(***************************************************************************)
(* Model of the ego-studio job orchestrator: the directory-backed job      *)
(* state machine (filesystem module), the transition table (job-state),    *)
(* the mover (job-moves) and the retry service, as asynchronous calls      *)
(* that interleave at every await.                                         *)
(***************************************************************************)
EXTENDS Integers, Sequences, FiniteSets, TLC

(* ---------------- bounds ---------------- *)

\* number of calls (moveJob, reclaimJob, retryJob, metadata update, log
\* append) issued in one behaviour
MaxOps == 2

\* queue entries added in one behaviour by enqueueYtDlpJob calls and by
\* Bull's re-attempts, plus retryJob calls
MaxCalls == 3

\* concurrent async call chains
Procs == {"p1", "p2"}

\* job identifiers handed out by uuidv4()
Jobs == {"j1"}

(* ---------------- job-state.ts ---------------- *)

\* JOB_STATES, in Object.values() order (the order every scan uses)
JOB_STATES == <<"NEW", "CLAIMED", "RUNNING", "DONE", "FAILED">>

StateSet == {JOB_STATES[i] : i \in 1..Len(JOB_STATES)}

Actor == {"DOWNLOAD_WORKER", "DEMUCS_WORKER", "LYRICS_WORKER",
          "AUDACITY_WORKER", "SYSTEM", "USER"}

\* faulty variant: the table with the CLAIMED -> FAILED entry that simulateFailure's
\* comment assumes
TRANSITION_RULES_ExtraPair ==
  ("NEW"     :> ("CLAIMED" :> {"SYSTEM", "DOWNLOAD_WORKER"})) @@
  ("CLAIMED" :> (("RUNNING" :> {"DOWNLOAD_WORKER"}) @@
                 ("NEW"     :> {"SYSTEM"}) @@
                 ("FAILED"  :> {"DOWNLOAD_WORKER"}))) @@
  ("RUNNING" :> (("DONE"    :> {"DOWNLOAD_WORKER", "DEMUCS_WORKER", "AUDACITY_WORKER"}) @@
                 ("FAILED"  :> {"DOWNLOAD_WORKER", "DEMUCS_WORKER", "AUDACITY_WORKER"}) @@
                 ("NEW"     :> {"SYSTEM"}))) @@
  ("DONE"    :> <<>>) @@
  ("FAILED"  :> ("NEW"     :> {"SYSTEM", "USER"}))

\* faulty variant: DONE with a way out, to CLAIMED
TRANSITION_RULES_DoneToClaimed ==
  ("NEW"     :> ("CLAIMED" :> {"SYSTEM", "DOWNLOAD_WORKER"})) @@
  ("CLAIMED" :> (("RUNNING" :> {"DOWNLOAD_WORKER"}) @@
                 ("NEW"     :> {"SYSTEM"}))) @@
  ("RUNNING" :> (("DONE"    :> {"DOWNLOAD_WORKER", "DEMUCS_WORKER", "AUDACITY_WORKER"}) @@
                 ("FAILED"  :> {"DOWNLOAD_WORKER", "DEMUCS_WORKER", "AUDACITY_WORKER"}) @@
                 ("NEW"     :> {"SYSTEM"}))) @@
  ("DONE"    :> ("CLAIMED" :> {"SYSTEM", "DEMUCS_WORKER"})) @@
  ("FAILED"  :> ("NEW"     :> {"SYSTEM", "USER"}))

\* (from, to) -> authorized actors
TRANSITION_RULES ==
  ("NEW"     :> ("CLAIMED" :> {"SYSTEM", "DOWNLOAD_WORKER"})) @@
  ("CLAIMED" :> (("RUNNING" :> {"DOWNLOAD_WORKER"}) @@
                 ("NEW"     :> {"SYSTEM"}))) @@
  ("RUNNING" :> (("DONE"    :> {"DOWNLOAD_WORKER", "DEMUCS_WORKER", "AUDACITY_WORKER"}) @@
                 ("FAILED"  :> {"DOWNLOAD_WORKER", "DEMUCS_WORKER", "AUDACITY_WORKER"}) @@
                 ("NEW"     :> {"SYSTEM"}))) @@
  ("DONE"    :> <<>>) @@
  ("FAILED"  :> ("NEW"     :> {"SYSTEM", "USER"}))

\* getValidNextStates(state): Object.keys(TRANSITION_RULES[state])
getValidNextStates(state) == DOMAIN TRANSITION_RULES[state]

\* faulty variant: the actor check left out
validateTransition_NoActorCheck(fromState, toState, actor) ==
  IF toState \notin DOMAIN TRANSITION_RULES[fromState]
    THEN "InvalidTransition"
    ELSE "valid"

\* "valid", or the kind of the reason: "Invalid transition: a -> b" or
\* "Actor x not authorized for transition ..."
validateTransition(fromState, toState, actor) ==
  IF toState \notin DOMAIN TRANSITION_RULES[fromState]
    THEN "InvalidTransition"
    ELSE IF actor \notin TRANSITION_RULES[fromState][toState]
      THEN "UnauthorizedActor"
      ELSE "valid"

(* ---------------- filesystem ---------------- *)

\* JobMetadata: the fields the orchestration reads or writes
NoMeta == [state |-> "-", download |-> "-", lease |-> "-",
           separation |-> "-", lyrics |-> "-", audacity |-> "-",
           createdAt |-> 0, updatedAt |-> 0]

\* a job folder under one state directory: metadata.json, logs/job.log and
\* the artifact types that hold a file
NoDir == [exists |-> FALSE, meta |-> NoMeta, log |-> <<>>, art |-> {}]

NoMsg == [k |-> "-", s |-> "-", a |-> "-"]

\* the pipeline stages, one Bull queue each
Stages == <<"download", "separation", "lyrics", "audacity">>

StageSet == {Stages[i] : i \in 1..Len(Stages)}

\* what is known of the latest invocation of a stage processor: the
\* processor, how its work ended, the queue entry, whether it returned or
\* threw, the moveJob calls it made with their results, whether it ran the
\* stage's work and whether it returned at the test of the stage records
\* job-worker.ts as loaded: let isRunning = false; let activeJobs = 0
NoWorker == [isRunning |-> FALSE, activeJobs |-> 0, jobs |-> <<>>, started |-> 0]

NoRun == [worker |-> "-", work |-> "-", job |-> "-", made |-> 0,
          outcome |-> "-", moves |-> <<>>, worked |-> FALSE, skipped |-> FALSE]

VARIABLES
  fs,      \* fs[j][s]: the folder storageRoot/jobs/s/j
  proc,    \* the async call chains and their locals
  nops,    \* calls issued so far
  race,    \* the fromState of the calls of a race scenario ("-": none)
  queue,   \* queue[stage]: the waiting entries of the stage's Bull queue
  run,     \* the latest invocation of a stage processor
  now,     \* the wall clock new Date() reads, in milliseconds; the records
           \* of earlier runs were stamped at millisecond 0
  worker   \* job-worker.ts: isRunning, activeJobs, and the processJob calls
           \* in flight

vars == <<fs, proc, nops, race, queue, run, now, worker>>

\* indexes of the state directories that satisfy P, in scan order
FirstState(P(_)) ==
  LET hits == {i \in 1..Len(JOB_STATES) : P(JOB_STATES[i])}
  IN IF hits = {} THEN "-"
     ELSE JOB_STATES[CHOOSE i \in hits : \A k \in hits : i <= k]

\* the first state directory, in scan order, that holds a folder for j
getJobStateDir(j) ==
  LET Holds(s) == fs[j][s].exists IN FirstState(Holds)

\* the first metadata.json found, scanning the state directories in order
readMetadata(j) ==
  LET Has(s) == fs[j][s].exists /\ fs[j][s].meta # NoMeta
      s0 == FirstState(Has)
  IN IF s0 = "-" THEN NoMeta ELSE fs[j][s0].meta

\* the state directories that hold a folder for j
DirsOf(j) == {s \in StateSet : fs[j][s].exists}


\* log lines, by kind: "Job created ...", "Transitioned to s by a",
\* "Reclaimed from s (lease expired)", "[USER] Retrying job", "[WORKER] ..."
Msg(k, s, a) == [k |-> k, s |-> s, a |-> a]

(* ---------------- async call chains ---------------- *)

Idle == [op |-> "idle", pc |-> "idle", job |-> "-", from |-> "-", to |-> "-",
         actor |-> "-", arg |-> "-", meta |-> NoMeta, dir |-> "-",
         msg |-> NoMsg, ret |-> <<>>, result |-> "none", beaten |-> FALSE]

Range(f) == {f[i] : i \in DOMAIN f}

\* p is inside a moveJob call (its own, or the one reclaimJob / retryJob made)
InMove(p) ==
  \/ proc[p].pc \in {"rt_move", "mv_src", "mv_dst", "mv_rename", "mv_read",
                     "mv_log", "mv_end"}
  \/ Range(proc[p].ret) \cap {"mv_log", "mv_end"} # {}

\* p's moveJob call has performed its rename
Renamed(p) ==
  \/ proc[p].pc \in {"mv_read", "mv_log", "mv_end"}
  \/ Range(proc[p].ret) \cap {"mv_log", "mv_end"} # {}

\* the call chain of p ends: it returned (res = "ok", "noop") or threw (res)
Finish(p, res) == proc' = [proc EXCEPT ![p] = [Idle EXCEPT !.result = res]]

\* an exception propagates out of the call chain (none of these callers
\* catches)
Throw(p, err) == Finish(p, err)

\* an awaited callee returned: continue at the caller's next await
Pop(p) ==
  IF proc[p].ret = <<>>
    THEN Finish(p, "ok")
    ELSE proc' = [proc EXCEPT ![p].pc = Head(proc[p].ret),
                              ![p].ret = Tail(proc[p].ret)]

\* the log of a job that reached state s along createJob and the first
\* stage's transitions
PathLog(s) ==
  LET created == <<Msg("Created", "-", "-")>>
      claimed == created \o <<Msg("Transitioned", "CLAIMED", "SYSTEM")>>
      running == claimed \o <<Msg("Transitioned", "RUNNING", "DOWNLOAD_WORKER")>>
  IN CASE s = "NEW"     -> created
       [] s = "CLAIMED" -> claimed
       [] s = "RUNNING" -> running
       [] OTHER         -> running \o <<Msg("Transitioned", s, "DOWNLOAD_WORKER")>>

\* the storage root as a server start finds it: empty (b = "-"), or with
\* every job of an earlier run at rest in state directory b
Stored(b) ==
  [j \in Jobs |-> [s \in StateSet |->
     IF s = b
       THEN [exists |-> TRUE,
             meta   |-> [NoMeta EXCEPT
                           !.state    = s,
                           !.download = CASE s = "DONE"   -> "COMPLETE"
                                          [] s = "FAILED" -> "FAILED"
                                          [] OTHER        -> "-"],
             log    |-> PathLog(s),
             art    |-> IF s = "DONE" THEN {"download"} ELSE {}]
       ELSE NoDir]]

\* initializeStorage() only ensures the five state directories: the jobs
\* of earlier runs are still on disk
Init ==
  /\ \E b \in {"-"} \cup StateSet : fs = Stored(b)
  /\ proc = [p \in Procs |-> Idle]
  /\ nops = 0
  /\ race = "-"
  /\ queue = [s \in StageSet |-> <<>>]
  /\ run = NoRun
  /\ now = 1
  /\ worker = NoWorker

(* ---------------- createJobFolder ---------------- *)

\* a fresh uuid: the folder, logs/, metadata.json and the creation log line.
\* The id is unknown to every other call chain until createJobFolder returns.
createJobFolder(j) ==
  /\ DirsOf(j) = {}
  /\ fs' = [fs EXCEPT ![j]["NEW"] =
              [exists |-> TRUE,
               meta   |-> [NoMeta EXCEPT !.state = "NEW", !.createdAt = now,
                                         !.updatedAt = now],
               log    |-> <<Msg("Created", "-", "-")>>,
               art    |-> {}]]
  /\ UNCHANGED <<proc, nops, race, queue, run, now, worker>>

(* ---------------- writeMetadata ---------------- *)

\* fs.ensureDir(path.dirname(metadataPath)): the directory is named by the
\* record's own state field. When the await returns the record is stamped
\* (metadata.updatedAt = new Date().toISOString()) and fs.writeJSON is called
WmEnsure(p) ==
  LET j == proc[p].job
      s == proc[p].meta.state
  IN /\ proc[p].pc = "wm_ensure"
     /\ fs' = IF fs[j][s].exists THEN fs
              ELSE [fs EXCEPT ![j][s] = [NoDir EXCEPT !.exists = TRUE]]
     /\ proc' = [proc EXCEPT ![p].pc = "wm_json", ![p].meta.updatedAt = now]
     /\ UNCHANGED <<nops, race, queue, run, now, worker>>

\* fs.writeJSON(metadataPath, metadata)
WmJson(p) ==
  LET j == proc[p].job
      s == proc[p].meta.state
  IN /\ proc[p].pc = "wm_json"
     /\ IF fs[j][s].exists
          THEN /\ fs' = [fs EXCEPT ![j][s].meta = proc[p].meta]
               /\ Pop(p)
          ELSE /\ Throw(p, "IOError")
               /\ UNCHANGED fs
     /\ UNCHANGED <<nops, race, queue, run, now, worker>>

(* ---------------- appendToJobLog ---------------- *)

\* the message of the appendToJobLog call made at pc
MsgAt(p) ==
  CASE proc[p].pc = "mv_log" -> Msg("Transitioned", proc[p].to, proc[p].actor)
    [] proc[p].pc = "rc_log" -> Msg("Reclaimed", proc[p].from, "-")
    [] proc[p].pc = "rt_log" -> Msg("Retrying", "-", "-")
    [] OTHER                 -> Msg("Worker", "-", "-")

\* const stateDir = await getJobStateDir(jobId)
LogResolve(p) ==
  LET j == proc[p].job
      d == getJobStateDir(j)
  IN /\ proc[p].pc \in {"mv_log", "rc_log", "rt_log", "lg_log"}
     /\ IF d = "-"
          THEN Throw(p, "JobNotFound")
          ELSE proc' = [proc EXCEPT
                 ![p].pc  = "log_ens",
                 ![p].dir = d,
                 ![p].msg = MsgAt(p),
                 ![p].ret = IF proc[p].pc = "mv_log"
                              THEN <<"mv_end">> \o proc[p].ret
                              ELSE proc[p].ret]
     /\ UNCHANGED <<fs, nops, race, queue, run, now, worker>>

\* await fs.ensureDir(path.dirname(logFile)), under the directory resolved
\* before the await
LogEnsure(p) ==
  LET j == proc[p].job
      d == proc[p].dir
  IN /\ proc[p].pc = "log_ens"
     /\ fs' = IF fs[j][d].exists THEN fs
              ELSE [fs EXCEPT ![j][d] = [NoDir EXCEPT !.exists = TRUE]]
     /\ proc' = [proc EXCEPT ![p].pc = "log_app"]
     /\ UNCHANGED <<nops, race, queue, run, now, worker>>

\* await fs.appendFile(logFile, logEntry)
LogAppend(p) ==
  LET j == proc[p].job
      d == proc[p].dir
  IN /\ proc[p].pc = "log_app"
     /\ IF fs[j][d].exists
          THEN /\ fs' = [fs EXCEPT ![j][d].log = Append(@, proc[p].msg)]
               /\ Pop(p)
          ELSE /\ Throw(p, "IOError")
               /\ UNCHANGED fs
     /\ UNCHANGED <<nops, race, queue, run, now, worker>>


(* ---------------- moveJob ---------------- *)

\* the call chain of moveJob(j, f, t, a) at its first await: the validation
\* has thrown ("Invalid transition: <reason>"), or the call goes on to the
\* existence checks
MoveCall(j, f, t, a) ==
  LET v == validateTransition(f, t, a)
  IN IF v = "valid"
       THEN [Idle EXCEPT !.op = "move", !.pc = "mv_src", !.job = j,
                         !.from = f, !.to = t, !.actor = a]
       ELSE [Idle EXCEPT !.result = v]

\* transitionJob / moveJob(jobId, fromState, toState, actor) is called:
\* const validation = validateTransition(...); throw when not valid.
\* The validation runs before the first await of the call.
StartMove(p, j, f, t, a) ==
  /\ proc[p].pc = "idle"
  /\ nops < MaxOps
  /\ proc' = [proc EXCEPT ![p] = MoveCall(j, f, t, a)]
  /\ nops' = nops + 1
  /\ UNCHANGED <<fs, race, queue, run, now, worker>>

\* if (!(await fs.pathExists(fromDir))) throw "... not found in state ..."
MvCheckSrc(p) ==
  /\ proc[p].pc = "mv_src"
  /\ IF fs[proc[p].job][proc[p].from].exists
       THEN proc' = [proc EXCEPT ![p].pc = "mv_dst"]
       ELSE Throw(p, "NotFoundInState")
  /\ UNCHANGED <<fs, nops, race, queue, run, now, worker>>

\* if (await fs.pathExists(toDir)) throw "... already exists in state ..."
MvCheckDst(p) ==
  /\ proc[p].pc = "mv_dst"
  /\ IF fs[proc[p].job][proc[p].to].exists
       THEN Throw(p, "AlreadyExistsInTarget")
       ELSE proc' = [proc EXCEPT ![p].pc = "mv_rename"]
  /\ UNCHANGED <<fs, nops, race, queue, run, now, worker>>

\* faulty variant: a move that copies the folder and leaves the source behind
MoveDir_Copy(j, f, t) ==
  [fs EXCEPT ![j][t] = fs[j][f]]

\* fs.move(fromDir, toDir, {overwrite: false}) on one filesystem: a rename
MoveDir(j, f, t) ==
  [fs EXCEPT ![j][t] = fs[j][f], ![j][f] = NoDir]

\* try { await fs.move(...) } catch { throw "Failed to move job ..." }
\* fs.move fails when the source is gone (ENOENT) or the destination is there
MvRename(p) ==
  LET j == proc[p].job
      f == proc[p].from
      t == proc[p].to
  IN /\ proc[p].pc = "mv_rename"
     /\ IF fs[j][f].exists /\ ~fs[j][t].exists
          THEN /\ fs' = MoveDir(j, f, t)
               /\ proc' = [proc EXCEPT ![p].pc = "mv_read"]
          ELSE /\ Throw(p, "MoveFailed")
               /\ UNCHANGED fs
     /\ UNCHANGED <<nops, race, queue, run, now, worker>>

\* const metadata = await filesystem.readMetadata(jobId);
\* if (metadata) { metadata.state = toState; await writeMetadata(...); ... }
MvRead(p) ==
  LET m == readMetadata(proc[p].job)
  IN /\ proc[p].pc = "mv_read"
     /\ IF m = NoMeta
          THEN proc' = [proc EXCEPT ![p].pc = "mv_end"]
          ELSE proc' = [proc EXCEPT
                 ![p].pc   = "wm_ensure",
                 ![p].meta = [m EXCEPT !.state = proc[p].to],
                 ![p].ret  = <<"mv_log">> \o proc[p].ret]
     /\ UNCHANGED <<fs, nops, race, queue, run, now, worker>>

\* moveJob returns to its caller; every other moveJob call in flight on the
\* same (job, fromState) has been overtaken by a successful one
MvEnd(p) ==
  LET Rival(q) == /\ q # p
                  /\ InMove(q)
                  /\ proc[q].job = proc[p].job
                  /\ proc[q].from = proc[p].from
      me == IF proc[p].ret = <<>>
              THEN [Idle EXCEPT !.result = "ok"]
              ELSE [proc[p] EXCEPT !.pc = Head(proc[p].ret),
                                   !.ret = Tail(proc[p].ret)]
  IN /\ proc[p].pc = "mv_end"
     /\ proc' = [q \in Procs |->
                   IF q = p THEN me
                   ELSE IF Rival(q) THEN [proc[q] EXCEPT !.beaten = TRUE]
                   ELSE proc[q]]
     /\ UNCHANGED <<fs, nops, race, queue, run, now, worker>>

(* ---------------- reclaimJob ---------------- *)

StartReclaim(p, j) ==
  /\ proc[p].pc = "idle"
  /\ nops < MaxOps
  /\ proc' = [proc EXCEPT ![p] = [Idle EXCEPT !.op = "reclaim", !.pc = "rc_read",
                                   !.job = j]]
  /\ nops' = nops + 1
  /\ UNCHANGED <<fs, race, queue, run, now, worker>>

\* faulty variant: the lease test inverted
RcRead_LeaseInverted(p) ==
  LET m == readMetadata(proc[p].job)
  IN /\ proc[p].pc = "rc_read"
     /\ IF m = NoMeta
          THEN Throw(p, "JobNotFound")
          ELSE IF m.state \in {"NEW", "DONE", "FAILED"} \/ m.lease # "future"
            THEN Finish(p, "noop")
            ELSE proc' = [proc EXCEPT
                   ![p].pc    = "mv_src",
                   ![p].from  = m.state,
                   ![p].to    = "NEW",
                   ![p].actor = "SYSTEM",
                   ![p].ret   = <<"rc_log">>]
     /\ UNCHANGED <<fs, nops, race, queue, run, now, worker>>

\* readMetadata, the state and lease tests, then moveJob(.., NEW, SYSTEM)
\* and the "Reclaimed from ..." log line
RcRead(p) ==
  LET m == readMetadata(proc[p].job)
  IN /\ proc[p].pc = "rc_read"
     /\ IF m = NoMeta
          THEN Throw(p, "JobNotFound")
          ELSE IF m.state \in {"NEW", "DONE", "FAILED"}
            THEN Finish(p, "noop")
            ELSE IF m.lease = "future"
              THEN Finish(p, "noop")
              ELSE IF validateTransition(m.state, "NEW", "SYSTEM") # "valid"
                THEN Throw(p, validateTransition(m.state, "NEW", "SYSTEM"))
                ELSE proc' = [proc EXCEPT
                       ![p].pc    = "mv_src",
                       ![p].from  = m.state,
                       ![p].to    = "NEW",
                       ![p].actor = "SYSTEM",
                       ![p].ret   = <<"rc_log">>]
     /\ UNCHANGED <<fs, nops, race, queue, run, now, worker>>

(* ---------------- retryJob ---------------- *)

StartRetry(p, j) ==
  /\ proc[p].pc = "idle"
  /\ nops < MaxOps
  /\ proc' = [proc EXCEPT ![p] = [Idle EXCEPT !.op = "retry", !.pc = "rt_read",
                                   !.job = j]]
  /\ nops' = nops + 1
  /\ UNCHANGED <<fs, race, queue, run, now, worker>>

\* readMetadata and the FAILED test; then the log line, moveJob(FAILED, NEW,
\* USER) and the clearing of the download record
RtRead(p) ==
  LET m == readMetadata(proc[p].job)
  IN /\ proc[p].pc = "rt_read"
     /\ IF m = NoMeta
          THEN Throw(p, "JobNotFound")
          ELSE IF m.state # "FAILED"
            THEN Throw(p, "NotFailed")
            ELSE proc' = [proc EXCEPT
                   ![p].pc    = "rt_log",
                   ![p].from  = "FAILED",
                   ![p].to    = "NEW",
                   ![p].actor = "USER",
                   ![p].ret   = <<"rt_move", "rt_read2">>]
     /\ UNCHANGED <<fs, nops, race, queue, run, now, worker>>

\* await moves.moveJob(jobId, FAILED, NEW, Actor.USER): validation and the
\* first existence test
RtMove(p) ==
  LET v == validateTransition(proc[p].from, proc[p].to, proc[p].actor)
  IN /\ proc[p].pc = "rt_move"
     /\ IF v # "valid"
          THEN Throw(p, v)
          ELSE IF fs[proc[p].job][proc[p].from].exists
            THEN proc' = [proc EXCEPT ![p].pc = "mv_dst"]
            ELSE Throw(p, "NotFoundInState")
     /\ UNCHANGED <<fs, nops, race, queue, run, now, worker>>

\* const updated = await readMetadata(jobId);
\* if (updated) { updated.download = undefined; await writeMetadata(...) }
RtRead2(p) ==
  LET m == readMetadata(proc[p].job)
  IN /\ proc[p].pc = "rt_read2"
     /\ IF m = NoMeta
          THEN Finish(p, "ok")
          ELSE proc' = [proc EXCEPT
                 ![p].pc   = "wm_ensure",
                 ![p].meta = [m EXCEPT !.download = "-"]]
     /\ UNCHANGED <<fs, nops, race, queue, run, now, worker>>

(* ---------------- metadata updates and log lines of the workers ------- *)

\* the read-modify-write updates the callers make: a stage record
\* (processYtDlpJob) or a lease (the tests of reclaimJob)
Updates == {"COMPLETE", "FAILED", "future", "past"}

ApplyUpdate(m, u) ==
  IF u \in {"COMPLETE", "FAILED"}
    THEN [m EXCEPT !.download = u]
    ELSE [m EXCEPT !.lease = u]

StartUpdate(p, j, u) ==
  /\ proc[p].pc = "idle"
  /\ nops < MaxOps
  /\ proc' = [proc EXCEPT ![p] = [Idle EXCEPT !.op = "update", !.pc = "up_read",
                                   !.job = j, !.arg = u]]
  /\ nops' = nops + 1
  /\ UNCHANGED <<fs, race, queue, run, now, worker>>

\* const updated = await readMetadata(jobId);
\* if (updated) { updated.download = {...}; await writeMetadata(jobId, updated) }
UpRead(p) ==
  LET m == readMetadata(proc[p].job)
  IN /\ proc[p].pc = "up_read"
     /\ IF m = NoMeta
          THEN Finish(p, "ok")
          ELSE proc' = [proc EXCEPT
                 ![p].pc   = "wm_ensure",
                 ![p].meta = ApplyUpdate(m, proc[p].arg)]
     /\ UNCHANGED <<fs, nops, race, queue, run, now, worker>>

\* a caller's own appendToJobLog(jobId, "[WORKER] ...")
StartLog(p, j) ==
  /\ proc[p].pc = "idle"
  /\ nops < MaxOps
  /\ proc' = [proc EXCEPT ![p] = [Idle EXCEPT !.op = "log", !.pc = "lg_log",
                                   !.job = j]]
  /\ nops' = nops + 1
  /\ UNCHANGED <<fs, race, queue, run, now, worker>>

(* ---------------- the system ---------------- *)

Next ==
  \/ \E j \in Jobs : createJobFolder(j)
  \/ \E p \in Procs, j \in Jobs, f \in StateSet, t \in StateSet, a \in Actor :
       StartMove(p, j, f, t, a)
  \/ \E p \in Procs : MvCheckSrc(p)
  \/ \E p \in Procs : MvCheckDst(p)
  \/ \E p \in Procs : MvRename(p)
  \/ \E p \in Procs : MvRead(p)
  \/ \E p \in Procs : MvEnd(p)
  \/ \E p \in Procs : WmEnsure(p)
  \/ \E p \in Procs : WmJson(p)
  \/ \E p \in Procs : LogResolve(p)
  \/ \E p \in Procs : LogEnsure(p)
  \/ \E p \in Procs : LogAppend(p)
  \/ \E p \in Procs, j \in Jobs : StartReclaim(p, j)
  \/ \E p \in Procs : RcRead(p)
  \/ \E p \in Procs, j \in Jobs : StartRetry(p, j)
  \/ \E p \in Procs : RtRead(p)
  \/ \E p \in Procs : RtMove(p)
  \/ \E p \in Procs : RtRead2(p)
  \/ \E p \in Procs, j \in Jobs, u \in Updates : StartUpdate(p, j, u)
  \/ \E p \in Procs : UpRead(p)
  \/ \E p \in Procs, j \in Jobs : StartLog(p, j)

Spec == Init /\ [][Next]_vars

(* ---------------- a race of moveJob calls on one (job, fromState) ----- *)

\* every job sits, at rest, in the state directory the race starts from
InitRace ==
  /\ race \in StateSet
  /\ fs = Stored(race)
  /\ proc = [p \in Procs |-> Idle]
  /\ nops = 0
  /\ queue = [s \in StageSet |-> <<>>]
  /\ run = NoRun
  /\ now = 1
  /\ worker = NoWorker

\* one more moveJob(j, race, t, a) is issued
StartRace(p, j, t, a) ==
  /\ race # "-"
  /\ StartMove(p, j, race, t, a)

NextRace ==
  \/ \E p \in Procs, j \in Jobs, t \in StateSet, a \in Actor : StartRace(p, j, t, a)
  \/ \E p \in Procs : MvCheckSrc(p)
  \/ \E p \in Procs : MvCheckDst(p)
  \/ \E p \in Procs : MvRename(p)
  \/ \E p \in Procs : MvRead(p)
  \/ \E p \in Procs : MvEnd(p)
  \/ \E p \in Procs : WmEnsure(p)
  \/ \E p \in Procs : WmJson(p)
  \/ \E p \in Procs : LogResolve(p)
  \/ \E p \in Procs : LogEnsure(p)
  \/ \E p \in Procs : LogAppend(p)

SpecRace == InitRace /\ [][NextRace]_vars

(* ---------------- calls run to completion ---------------- *)
\* The stage processors below run one at a time on a job; a filesystem call
\* they make is then computed from the storage F it finds to the storage it
\* leaves and the error it throws ("ok": none).

Ran(F, e) == [fs |-> F, err |-> e]

\* getJobStateDir on storage F
StateDirIn(F, j) ==
  LET Holds(s) == F[j][s].exists IN FirstState(Holds)

\* readMetadata on storage F
MetaIn(F, j) ==
  LET Has(s) == F[j][s].exists /\ F[j][s].meta # NoMeta
      s0 == FirstState(Has)
  IN IF s0 = "-" THEN NoMeta ELSE F[j][s0].meta

\* appendToJobLog(j, m)
SeqLog(F, j, m) ==
  LET d == StateDirIn(F, j)
  IN IF d = "-" THEN Ran(F, "JobNotFound")
     ELSE Ran([F EXCEPT ![j][d].log = Append(@, m)], "ok")

\* writeMetadata(j, meta): ensureDir and writeJSON under meta.state
SeqWrite(F, j, meta) ==
  Ran([F EXCEPT ![j][meta.state].exists = TRUE,
                ![j][meta.state].meta   = [meta EXCEPT !.updatedAt = now]], "ok")

\* writeArtifact(j, type, ..): ensureDir and writeFile under getJobStateDir
SeqArtifact(F, j, type) ==
  LET d == StateDirIn(F, j)
  IN IF d = "-" THEN Ran(F, "JobNotFound")
     ELSE Ran([F EXCEPT ![j][d].art = @ \cup {type}], "ok")

\* moveJob(j, f, t, a)
SeqMove(F, j, f, t, a) ==
  LET v == validateTransition(f, t, a)
      G == [F EXCEPT ![j][t] = F[j][f], ![j][f] = NoDir]
      m == MetaIn(G, j)
  IN IF v # "valid" THEN Ran(F, v)
     ELSE IF ~F[j][f].exists THEN Ran(F, "NotFoundInState")
     ELSE IF F[j][t].exists THEN Ran(F, "AlreadyExistsInTarget")
     ELSE IF m = NoMeta THEN Ran(G, "ok")
     ELSE SeqLog(SeqWrite(G, j, [m EXCEPT !.state = t]).fs, j,
                 Msg("Transitioned", t, a))

\* retryJob(j)
SeqRetry(F, j) ==
  LET m  == MetaIn(F, j)
      l  == SeqLog(F, j, Msg("Retrying", "-", "-"))
      mv == SeqMove(l.fs, j, "FAILED", "NEW", "USER")
      u  == MetaIn(mv.fs, j)
  IN IF m = NoMeta THEN Ran(F, "JobNotFound")
     ELSE IF m.state # "FAILED" THEN Ran(F, "NotFailed")
     ELSE IF l.err # "ok" THEN l
     ELSE IF mv.err # "ok" THEN mv
     ELSE IF u = NoMeta THEN mv
     ELSE SeqWrite(mv.fs, j, [u EXCEPT !.download = "-"])

\* faulty variant: the test for the target state left out
SeqMoveIdem_NoTargetTest(F, j, f, t, a) ==
  LET m == MetaIn(F, j)
  IN IF m = NoMeta THEN Ran(F, "JobNotFound")
     ELSE IF m.state # f THEN Ran(F, "UnexpectedState")
     ELSE SeqMove(F, j, f, t, a)

\* moveJobIdempotent(j, f, t, a): true ("ok") when metadata.state is already
\* t, "Job is in state .., expected .." when it is not f, moveJob otherwise
SeqMoveIdem(F, j, f, t, a) ==
  LET m == MetaIn(F, j)
  IN IF m = NoMeta THEN Ran(F, "JobNotFound")
     ELSE IF m.state = t THEN Ran(F, "ok")
     ELSE IF m.state # f THEN Ran(F, "UnexpectedState")
     ELSE SeqMove(F, j, f, t, a)

\* listJobs({state}): listAllJobs lists the folders of every state
\* directory, each with the first metadata.json found for its id, and the
\* filter compares metadata.state
listJobs(F, state) ==
  {j \in Jobs : /\ \E s \in StateSet : F[j][s].exists
                /\ MetaIn(F, j) # NoMeta
                /\ MetaIn(F, j).state = state}

\* reclaimJob(j)
SeqReclaim(F, j) ==
  LET m  == MetaIn(F, j)
      mv == SeqMove(F, j, m.state, "NEW", "SYSTEM")
  IN IF m = NoMeta THEN Ran(F, "JobNotFound")
     ELSE IF m.state \in {"NEW", "DONE", "FAILED"} THEN Ran(F, "noop")
     ELSE IF m.lease = "future" THEN Ran(F, "noop")
     ELSE IF mv.err # "ok" THEN mv
     ELSE SeqLog(mv.fs, j, Msg("Reclaimed", m.state, "-"))

(* ---------------- the stage processors ---------------- *)

\* processYtDlpJob; processDemucsJob (calling demucs, and the mock);
\* processLyricsJob (the mock, and the Genius client); processAudacityJob
Workers == {"ytdlp", "demucs", "demucs_mock", "lyrics", "lyrics_genius",
            "audacity"}

StageOf(w) ==
  CASE w = "ytdlp"                        -> "download"
    [] w \in {"demucs", "demucs_mock"}    -> "separation"
    [] w \in {"lyrics", "lyrics_genius"}  -> "lyrics"
    [] OTHER                              -> "audacity"

\* the actor a processor passes to moveJob
ActorOf(w) ==
  CASE w = "ytdlp"       -> "DOWNLOAD_WORKER"
    [] w = "demucs_mock" -> "DEMUCS_WORKER"
    [] OTHER             -> "SYSTEM"

\* the state a processor claims the job from
ClaimFrom(w) == IF w = "ytdlp" THEN "NEW" ELSE "DONE"

\* the test on the stage records that makes a processor return at once
Skips(w, m) ==
  CASE w = "ytdlp"                        -> FALSE
    [] w \in {"demucs", "demucs_mock"}    -> m.download # "COMPLETE"
    [] w \in {"lyrics", "lyrics_genius"}  -> m.separation # "COMPLETE"
    [] OTHER                              -> m.lyrics = "FAILED"

\* the artifact type a processor writes
ArtifactOf(w) == IF w = "demucs" THEN "stems" ELSE StageOf(w)

\* the processors that catch a failed writeArtifact and go on
ArtifactGuarded(w) == w \in {"ytdlp", "demucs", "audacity"}

\* how the work of a stage ends: with success, with {success: false}, with
\* {success: false, reason: a timeout} (the demucs processors only), or with
\* an I/O error thrown by the first filesystem call that follows it
WorkResults(w) ==
  {"ok", "fail", "throw"} \cup
  (IF w \in {"demucs", "demucs_mock"} THEN {"timeout"} ELSE {})

\* a processor invocation under way: the storage, the pending exception, the
\* moveJob calls issued with their results, and whether the work was run
Run0(F) == [fs |-> F, err |-> "ok", moves |-> <<>>, worked |-> FALSE]

RLog(r, j, tag) ==
  IF r.err # "ok" THEN r
  ELSE LET x == SeqLog(r.fs, j, Msg("Worker", tag, "-"))
       IN [r EXCEPT !.fs = x.fs, !.err = x.err]

RMove(r, j, f, t, a) ==
  IF r.err # "ok" THEN r
  ELSE LET x == SeqMove(r.fs, j, f, t, a)
       IN [r EXCEPT !.fs = x.fs, !.err = x.err,
                    !.moves = Append(@, [from |-> f, to |-> t, actor |-> a,
                                         res |-> x.err])]

\* const updated = await readMetadata(j);
\* if (updated) { updated.<stage> = {status}; await writeMetadata(j, updated) }
RRecord(r, j, w, status) ==
  LET m == MetaIn(r.fs, j)
  IN IF r.err # "ok" \/ m = NoMeta THEN r
     ELSE [r EXCEPT !.fs = SeqWrite(r.fs, j,
                             [m EXCEPT ![StageOf(w)] = status]).fs]

\* writeArtifact and, in the processors that log it, the log line
RArtifact(r, j, w) ==
  IF r.err # "ok" THEN r
  ELSE LET x == SeqArtifact(r.fs, j, ArtifactOf(w))
       IN IF x.err # "ok"
            THEN IF w = "ytdlp" THEN r
                 ELSE IF ArtifactGuarded(w) THEN RLog(r, j, "artifact_warning")
                 ELSE [r EXCEPT !.err = x.err]
            ELSE IF w = "ytdlp" THEN [r EXCEPT !.fs = x.fs]
                 ELSE RLog([r EXCEPT !.fs = x.fs], j, "artifact")

\* if (metadata.state === <ClaimFrom>) { log; moveJob(.., CLAIMED, actor) }
Claim(r, j, w) ==
  IF r.err = "ok" /\ MetaIn(r.fs, j).state = ClaimFrom(w)
    THEN RMove(RLog(r, j, "claiming"), j, ClaimFrom(w), "CLAIMED", ActorOf(w))
    ELSE r

\* if (metadata?.state === CLAIMED) { log; moveJob(CLAIMED, RUNNING, actor) }
Start(r, j, w) ==
  IF r.err = "ok" /\ MetaIn(r.fs, j).state = "CLAIMED"
    THEN RMove(RLog(r, j, "starting"), j, "CLAIMED", "RUNNING", ActorOf(w))
    ELSE r

\* if (!metadata) throw; log; the work itself. executeYtDlp first ensures
\* jobs/RUNNING/<id>/artifacts/download
Work(r, j, w) ==
  LET l == RLog(r, j, "working")
  IN IF r.err # "ok" THEN r
     ELSE IF MetaIn(r.fs, j) = NoMeta THEN [r EXCEPT !.err = "JobNotFound"]
     ELSE IF l.err # "ok" THEN l
     ELSE [l EXCEPT !.worked = TRUE,
                    !.fs = IF w = "ytdlp"
                             THEN [l.fs EXCEPT ![j]["RUNNING"].exists = TRUE]
                             ELSE l.fs]

\* if (!result.success) { log; <stage> = FAILED; moveJob(RUNNING, FAILED) }
FailPath(r, j, w) ==
  RMove(RRecord(RLog(r, j, "failed"), j, w, "FAILED"),
        j, "RUNNING", "FAILED", ActorOf(w))

\* the success path up to the write of the stage record and the artifact
\* (processYtDlpJob writes the record first, the others the artifact)
Written(r, j, w) ==
  LET l == RLog(r, j, "complete")
  IN IF w = "ytdlp"
       THEN RArtifact(RRecord(l, j, w, "COMPLETE"), j, w)
       ELSE RRecord(RArtifact(l, j, w), j, w, "COMPLETE")

\* the rest of the success path: moveJob(RUNNING, DONE, actor) and, in
\* processYtDlpJob, the log line that precedes enqueueDemucsJob
Finished(r, j, w) ==
  LET mv == RMove(r, j, "RUNNING", "DONE", ActorOf(w))
      l  == RLog(mv, j, "enqueueing")
  IN IF w = "ytdlp" /\ mv.err = "ok"
       THEN [mv EXCEPT !.fs = l.fs]
       ELSE mv

\* the try block up to the end of the work; "skipped" for the early return
Begun(F, j, w) ==
  LET m == MetaIn(F, j)
  IN IF m = NoMeta THEN [Run0(F) EXCEPT !.err = "JobNotFound"]
     ELSE IF Skips(w, m) THEN [Run0(F) EXCEPT !.err = "skipped"]
     ELSE Work(Start(Claim(Run0(F), j, w), j, w), j, w)

\* the catch block: the error is logged, a job whose metadata says RUNNING is
\* moved to FAILED, both under try/catch. processLyricsJob of the Genius
\* client writes lyrics = FAILED instead.
Caught(r, j, w) ==
  LET ok == [r EXCEPT !.err = "ok"]
      l  == RLog(ok, j, "error")
      a  == IF l.err = "ok" THEN l ELSE ok
      mv == IF MetaIn(a.fs, j).state = "RUNNING"
              THEN RMove(a, j, "RUNNING", "FAILED", ActorOf(w))
              ELSE a
  IN IF w = "lyrics_genius"
       THEN IF l.err = "ok" THEN RRecord(l, j, w, "FAILED") ELSE ok
       ELSE mv

\* what the queue layer sees of an invocation that ended with the try block
\* in r: a normal return, or the exception thrown again by the catch block
Ended(r, j, w, work) ==
  LET c == Caught(r, j, w)
  IN IF r.err \in {"ok", "skipped"}
       THEN [fs |-> r.fs, outcome |-> "returned", moves |-> r.moves,
             worked |-> r.worked, skipped |-> r.err = "skipped"]
       ELSE [fs |-> c.fs,
             outcome |-> IF w = "lyrics_genius" THEN "returned" ELSE "threw",
             moves |-> c.moves, worked |-> r.worked, skipped |-> FALSE]

\* one whole invocation of processor w on job j, its work ending as `work`
Processor(F, j, w, work) ==
  LET b == Begun(F, j, w)
      t == IF b.err # "ok" THEN b
           ELSE CASE work = "ok"    -> Finished(Written(b, j, w), j, w)
                  [] work = "throw" -> [b EXCEPT !.err = "IOError"]
                  [] OTHER          -> FailPath(b, j, w)
  IN Ended(t, j, w, work)

(* ---------------- the Bull queues ---------------- *)

\* JOB_OPTIONS.attempts, passed by every enqueue function
ATTEMPTS == 3

\* a queue entry: the job id, Bull's attemptsMade, and whether the entry is
\* active (its processor is running)
Entry(j, n) == [job |-> j, made |-> n, active |-> FALSE]

\* the stage whose enqueue function the "completed" handler of a queue calls
NextStage(st) ==
  CASE st = "download"   -> "separation"
    [] st = "separation" -> "lyrics"
    [] st = "lyrics"     -> "audacity"
    [] OTHER             -> "-"

\* queue.add({jobId}, JOB_OPTIONS)
Add(q, st, j) ==
  IF st = "-" THEN q ELSE [q EXCEPT ![st] = Append(@, Entry(j, 0))]

\* Bull once the processor has ended on entry e: "completed" calls the next
\* stage's enqueue function; a thrown error puts the entry back while
\* attempts remain, and "failed" only logs
Settle(q, e, w, outcome) ==
  IF outcome = "returned"
    THEN Add(q, NextStage(StageOf(w)), e.job)
    ELSE IF e.made + 1 < ATTEMPTS
      THEN [q EXCEPT ![StageOf(w)] = Append(@, Entry(e.job, e.made + 1))]
      ELSE q

\* Settle when the enqueue function the "completed" handler calls ends as enq:
\* the handler catches a failure and logs it on the console
Hooked(q, e, w, outcome, enq) ==
  IF outcome = "returned" /\ enq = "fail" THEN q ELSE Settle(q, e, w, outcome)

\* faulty variant: no catch around enqueueDemucsJob
OwnEnqueue_NoCatch(r, j, enq) ==
  IF enq = "ok" THEN r ELSE [r EXCEPT !.err = "EnqueueError"]

\* processYtDlpJob: try { log; await enqueueDemucsJob(j) } catch { log a
\* warning }, after the log line of the try block
OwnEnqueue(r, j, enq) ==
  IF enq = "ok" THEN r ELSE RLog(r, j, "enqueue_warning")

\* an entry put back by Bull after the invocation of this step counts as one
\* more entry added
Attempt ==
  IF run'.outcome = "threw" /\ run'.made + 1 < ATTEMPTS
    THEN nops < MaxCalls /\ nops' = nops + 1
    ELSE nops' = nops

\* the record kept of an invocation
RunOf(w, work, e, res) ==
  [worker |-> w, work |-> work, job |-> e.job, made |-> e.made,
   outcome |-> res.outcome, moves |-> res.moves, worked |-> res.worked,
   skipped |-> res.skipped]

\* enqueueYtDlpJob(j), called by whoever submits the job
Enqueue(j) ==
  /\ nops < MaxCalls
  /\ nops' = nops + 1
  /\ queue' = Add(queue, "download", j)
  /\ UNCHANGED <<fs, proc, race, run, now, worker>>

\* retryJob(j), called by the user
Retry(j) ==
  /\ nops < MaxCalls
  /\ nops' = nops + 1
  /\ fs' = SeqRetry(fs, j).fs
  /\ UNCHANGED <<proc, race, queue, run, now, worker>>

\* queue.process(1, processor): one entry of the stage's queue at a time.
\* The processor takes the head entry and runs to its end; the enqueue
\* function of the "completed" handler ends as enq.
ProcessWith(w, work, enq) ==
  LET st  == StageOf(w)
      e   == Head(queue[st])
      res == Processor(fs, e.job, w, work)
  IN /\ queue[st] # <<>>
     /\ ~e.active
     /\ ~(w = "ytdlp" /\ work = "ok" /\ Begun(fs, e.job, w).err = "ok")
     /\ fs' = res.fs
     /\ run' = RunOf(w, work, e, res)
     /\ queue' = Hooked([queue EXCEPT ![st] = Tail(@)], e, w, res.outcome, enq)
     /\ UNCHANGED <<proc, race, now, worker>>

\* the same with a queue layer that takes every entry
Process(w, work) == ProcessWith(w, work, "ok")

\* processYtDlpJob with a successful download, up to the write of the
\* download record and the artifact. The processors of the other queues run
\* before its next await returns.
YtDlpWrite ==
  LET e == Head(queue["download"])
      b == Begun(fs, e.job, "ytdlp")
      r == Written(b, e.job, "ytdlp")
  IN /\ queue["download"] # <<>>
     /\ ~e.active
     /\ b.err = "ok"
     /\ r.err = "ok"
     /\ fs' = r.fs
     /\ run' = RunOf("ytdlp", "ok", e,
                     [outcome |-> "active", moves |-> r.moves,
                      worked |-> TRUE, skipped |-> FALSE])
     /\ queue' = [queue EXCEPT !["download"][1].active = TRUE]
     /\ UNCHANGED <<proc, race, now, worker>>

\* the rest of processYtDlpJob: moveJob(RUNNING, DONE, DOWNLOAD_WORKER), its
\* own enqueueDemucsJob, which ends as enq, and the catch block; then the
\* "completed" handler, whose enqueue function ends as hook
YtDlpMoveWith(enq, hook) ==
  LET e    == Head(queue["download"])
      r    == [Run0(fs) EXCEPT !.worked = TRUE]
      t    == Finished(r, e.job, "ytdlp")
      u    == IF t.err = "ok" THEN OwnEnqueue(t, e.job, enq) ELSE t
      res  == Ended(u, e.job, "ytdlp", "ok")
      rest == [queue EXCEPT !["download"] = Tail(@)]
      own  == IF u.err = "ok" /\ enq = "ok"
                THEN Add(rest, "separation", e.job) ELSE rest
  IN /\ queue["download"] # <<>>
     /\ e.active
     /\ fs' = res.fs
     /\ run' = RunOf("ytdlp", "ok", e, res)
     /\ queue' = Hooked(own, e, "ytdlp", res.outcome, hook)
     /\ UNCHANGED <<proc, race, now, worker>>

\* the same with a queue layer that takes every entry
YtDlpMove == YtDlpMoveWith("ok", "ok")

\* Redis keeps the waiting entries over a restart: the download queue is
\* empty, or still holds the entry of a submitted job
InitPipe ==
  /\ \E b \in {"-"} \cup StateSet : fs = Stored(b)
  /\ proc = [p \in Procs |-> Idle]
  /\ nops = 0
  /\ race = "-"
  /\ \E q \in {<<>>} \cup {<<Entry(j, 0)>> : j \in Jobs} :
       queue = [s \in StageSet |-> IF s = "download" THEN q ELSE <<>>]
  /\ run = NoRun
  /\ now = 1
  /\ worker = NoWorker

NextPipe ==
  \/ \E j \in Jobs : createJobFolder(j)
  \/ \E j \in Jobs : Enqueue(j)
  \/ \E j \in Jobs : Retry(j)
  \/ \E w \in Workers : \E work \in WorkResults(w) : Process(w, work) /\ Attempt
  \/ YtDlpWrite /\ UNCHANGED nops
  \/ YtDlpMove /\ Attempt

SpecPipe == InitPipe /\ [][NextPipe]_vars

(* ---------------- one submitted job ---------------- *)

\* createJob and enqueueYtDlpJob have returned: the job is at rest in NEW
\* with its entry on the download queue
InitLive ==
  /\ fs = Stored("NEW")
  /\ proc = [p \in Procs |-> Idle]
  /\ nops = 0
  /\ race = "-"
  /\ \E j \in Jobs :
       queue = [s \in StageSet |-> IF s = "download" THEN <<Entry(j, 0)>>
                                                     ELSE <<>>]
  /\ run = NoRun
  /\ now = 1
  /\ worker = NoWorker

\* a step of a stage processor; nothing else acts on the job
Worked ==
  /\ \/ \E w \in Workers : \E work \in WorkResults(w) : Process(w, work)
     \/ YtDlpWrite
     \/ YtDlpMove
  /\ UNCHANGED nops

\* the ways Bull settles the head entry of a stage's queue: the processor
\* is running on it (the download queue), it has returned, or it has thrown
Outcomes(st) ==
  LET e    == Head(queue[st])
      rest == [queue EXCEPT ![st] = Tail(@)]
      ws   == {w \in Workers : StageOf(w) = st}
  IN {Settle(rest, e, w, o) : w \in ws, o \in {"returned", "threw"}}
     \cup (IF st = "download"
             THEN {[queue EXCEPT ![st][1].active = TRUE],
                   Settle(Add(rest, "separation", e.job), e, "ytdlp",
                          "returned")}
             ELSE {})

\* the head entry of some queue is settled
Settled == \E st \in StageSet : queue[st] # <<>> /\ queue' \in Outcomes(st)

\* Bull hands every waiting entry to the stage's processor, and the awaits
\* of a running processor return: a queue that holds an entry does not
\* stay as it is
SpecPipeLive == InitLive /\ [][Worked]_vars /\ WF_queue(Settled)

(* ---------------- one submitted job and a queue layer that can fail ---------------- *)

Enqueued == {"ok", "fail"}

NextHook ==
  \/ \E w \in Workers : \E work \in WorkResults(w) : \E enq \in Enqueued :
       ProcessWith(w, work, enq) /\ UNCHANGED nops
  \/ YtDlpWrite /\ UNCHANGED nops
  \/ \E enq \in Enqueued : \E hook \in Enqueued :
       YtDlpMoveWith(enq, hook) /\ UNCHANGED nops

SpecHook == InitLive /\ [][NextHook]_vars


(* ---------------- calls issued one after the other ---------------- *)

\* no call chain is in flight
Quiet == \A p \in Procs : proc[p].pc = "idle"

\* a call is issued only once the one before it has returned
StartSolo(p) ==
  /\ Quiet
  /\ \/ \E j \in Jobs, f \in StateSet, t \in StateSet, a \in Actor :
          StartMove(p, j, f, t, a)
     \/ \E j \in Jobs : StartReclaim(p, j)
     \/ \E j \in Jobs : StartRetry(p, j)
     \/ \E j \in Jobs, u \in Updates : StartUpdate(p, j, u)
     \/ \E j \in Jobs : StartLog(p, j)

\* one await of the call in flight
StepSolo(p) ==
  \/ MvCheckSrc(p) \/ MvCheckDst(p) \/ MvRename(p) \/ MvRead(p) \/ MvEnd(p)
  \/ WmEnsure(p) \/ WmJson(p)
  \/ LogResolve(p) \/ LogEnsure(p) \/ LogAppend(p)
  \/ RcRead(p)
  \/ RtRead(p) \/ RtMove(p) \/ RtRead2(p)
  \/ UpRead(p)

NextSolo ==
  \/ \E j \in Jobs : createJobFolder(j)
  \/ StartSolo("p1")
  \/ StepSolo("p1")

SpecSolo == Init /\ [][NextSolo]_vars

(* ---------------- moveJobIdempotent, one call after the other ---------------- *)

\* moveJobIdempotent(j, f, t, a) runs to its end; proc["p1"] keeps the
\* arguments of the call, the metadata.state it read and what it returned
\* ("ok": true) or threw
Idem(j, f, t, a) ==
  LET r == SeqMoveIdem(fs, j, f, t, a)
  IN /\ nops < MaxOps
     /\ fs' = r.fs
     /\ proc' = [proc EXCEPT !["p1"] =
                   [Idle EXCEPT !.job = j, !.from = f, !.to = t, !.actor = a,
                                !.arg = MetaIn(fs, j).state, !.result = r.err]]
     /\ nops' = nops + 1
     /\ UNCHANGED <<race, queue, run, now, worker>>

NextIdem ==
  \/ \E j \in Jobs : createJobFolder(j)
  \/ \E j \in Jobs, f \in StateSet, t \in StateSet, a \in Actor : Idem(j, f, t, a)

SpecIdem == Init /\ [][NextIdem]_vars

(* ---------------- job-worker.ts ---------------- *)

\* appendLog(j, message): ensureDir and appendFile under jobs/NEW/<id>/logs,
\* whatever directory holds the job
JwAppendLog(F, j, tag) ==
  [F EXCEPT ![j]["NEW"].exists = TRUE,
            ![j]["NEW"].log    = Append(@, Msg("JobWorker", tag, "-"))]

\* simulateProgress(j): the next transition of NEW -> CLAIMED -> RUNNING ->
\* DONE from metadata.state, and the stage records once in DONE
simulateProgress(F, j) ==
  LET m  == MetaIn(F, j)
      t  == CASE m.state = "NEW"     -> "CLAIMED"
              [] m.state = "CLAIMED" -> "RUNNING"
              [] m.state = "RUNNING" -> "DONE"
              [] OTHER               -> "-"
      a  == IF m.state = "NEW" THEN "SYSTEM" ELSE "DOWNLOAD_WORKER"
      mv == SeqMove(F, j, m.state, t, a)
      u  == MetaIn(mv.fs, j)
  IN IF m = NoMeta THEN Ran(F, "JobNotFound")
     ELSE IF t = "-" THEN Ran(F, "ok")
     ELSE IF mv.err # "ok" THEN mv
     ELSE IF u = NoMeta THEN Ran(mv.fs, "JobNotFound")
     ELSE IF t = "DONE"
       THEN SeqWrite(mv.fs, j, [u EXCEPT !.download = "COMPLETE",
                                         !.separation = "COMPLETE"])
       ELSE mv

\* simulateFailure(j, "DOWNLOAD_ERROR")
simulateFailure(F, j) ==
  LET m  == MetaIn(F, j)
      mv == IF m.state = "FAILED" THEN Ran(F, "ok")
            ELSE SeqMove(F, j, m.state, "FAILED", "DOWNLOAD_WORKER")
      u  == MetaIn(mv.fs, j)
  IN IF m = NoMeta THEN Ran(F, "JobNotFound")
     ELSE IF m.state \in {"NEW", "DONE"} THEN Ran(F, "CannotFail")
     ELSE IF mv.err # "ok" THEN mv
     ELSE IF u = NoMeta THEN Ran(mv.fs, "JobNotFound")
     ELSE SeqWrite(mv.fs, j, [u EXCEPT !.download = "FAILED"])

\* processJob(j) on a job created from a YouTube URL (no file metadata): two
\* transitions with their log lines, then "[SKIPPED]" and return; the catch
\* block logs the error and calls simulateFailure, whose error it swallows.
\* updateJobMetadata in the catch block adds failureReason, which no code
\* reads, to jobs/NEW/<id>/metadata.json.
processJob(F, j) ==
  LET p1 == simulateProgress(F, j)
      l1 == JwAppendLog(p1.fs, j, "CLAIMED")
      p2 == simulateProgress(l1, j)
      l2 == JwAppendLog(p2.fs, j, "RUNNING")
      Catch(G) == simulateFailure(JwAppendLog(G, j, "ERROR"), j).fs
  IN IF p1.err # "ok" THEN Catch(p1.fs)
     ELSE IF p2.err # "ok" THEN Catch(p2.fs)
     ELSE IF MetaIn(l2, j) = NoMeta THEN Catch(l2)
     ELSE JwAppendLog(l2, j, "SKIPPED")

\* pollForJobs: listJobs({state: "NEW", limit: 1}) returns the job, and
\* processJob runs on it
JobWorker(j) ==
  /\ Quiet
  /\ nops < MaxOps
  /\ readMetadata(j).state = "NEW"
  /\ fs' = processJob(fs, j)
  /\ nops' = nops + 1
  /\ UNCHANGED <<proc, race, queue, run, now, worker>>

NextWorker ==
  \/ NextSolo
  \/ \E j \in Jobs : JobWorker(j)

SpecWorker == Init /\ [][NextWorker]_vars

(* ---------------- job-worker.ts: the polling loop ---------------- *)

MAX_CONCURRENT_JOBS == 1

\* pollForJobs at the top of its while loop, up to its next await: the loop
\* ends when isRunning is false, sleeps POLL_INTERVAL when activeJobs has
\* reached MAX_CONCURRENT_JOBS, and awaits listJobs otherwise
PollTop(w) ==
  IF ~w.isRunning THEN Idle
  ELSE IF w.activeJobs >= MAX_CONCURRENT_JOBS
    THEN [Idle EXCEPT !.op = "poll", !.pc = "pl_sleep"]
    ELSE [Idle EXCEPT !.op = "poll", !.pc = "pl_list"]

\* startJobWorker(): "Already running", or isRunning = true and a
\* pollForJobs() call that is not awaited
startJobWorker(p) ==
  /\ nops < MaxCalls
  /\ proc[p].pc = "idle"
  /\ IF worker.isRunning
       THEN UNCHANGED <<proc, worker>>
       ELSE /\ worker' = [worker EXCEPT !.isRunning = TRUE]
            /\ proc' = [proc EXCEPT ![p] = PollTop(worker')]
  /\ nops' = nops + 1
  /\ UNCHANGED <<fs, race, queue, run, now>>

\* stopJobWorker()
stopJobWorker ==
  /\ nops < MaxCalls
  /\ worker' = [worker EXCEPT !.isRunning = FALSE]
  /\ nops' = nops + 1
  /\ UNCHANGED <<fs, proc, race, queue, run, now>>

\* await sleep(..) returns: back to the top of the loop
PlSleep(p) ==
  /\ proc[p].pc = "pl_sleep"
  /\ proc' = [proc EXCEPT ![p] = PollTop(worker)]
  /\ UNCHANGED <<fs, nops, race, queue, run, now, worker>>

\* await listJobs({state: "NEW", limit: 1}) returns: no job, sleep; a job,
\* activeJobs++, processJob(jobId) is started and not awaited, sleep(1000)
PlList(p) ==
  /\ proc[p].pc = "pl_list"
  /\ LET jobs == listJobs(fs, "NEW")
     IN IF jobs = {}
          THEN UNCHANGED worker
          ELSE /\ worker.started < MaxOps
               /\ \E j \in jobs :
                    worker' = [worker EXCEPT !.activeJobs = @ + 1,
                                             !.jobs = Append(@, j),
                                             !.started = @ + 1]
  /\ proc' = [proc EXCEPT ![p].pc = "pl_sleep"]
  /\ UNCHANGED <<fs, nops, race, queue, run, now>>

\* a processJob call runs to its end, and its finally: activeJobs--
PlDone ==
  /\ worker.jobs # <<>>
  /\ \E i \in 1..Len(worker.jobs) :
       /\ fs' = processJob(fs, worker.jobs[i])
       /\ worker' = [worker EXCEPT
            !.activeJobs = @ - 1,
            !.jobs = SubSeq(@, 1, i - 1) \o SubSeq(@, i + 1, Len(@))]
  /\ UNCHANGED <<proc, nops, race, queue, run, now>>

NextPoll ==
  \/ \E j \in Jobs : createJobFolder(j)
  \/ \E p \in Procs : startJobWorker(p)
  \/ stopJobWorker
  \/ \E p \in Procs : PlSleep(p)
  \/ \E p \in Procs : PlList(p)
  \/ PlDone

SpecPoll == Init /\ [][NextPoll]_vars

(* ---------------- a worker crash and the Reclaimer ---------------- *)

\* the worker's process has died
Crashed == proc["p1"].result = "crashed"

\* a worker holds the job: it is at rest in CLAIMED or RUNNING
InitCrash ==
  /\ \E b \in {"CLAIMED", "RUNNING"} : fs = Stored(b)
  /\ proc = [p \in Procs |-> Idle]
  /\ nops = 0
  /\ race = "-"
  /\ queue = [s \in StageSet |-> <<>>]
  /\ run = NoRun
  /\ now = 1
  /\ worker = NoWorker

\* the worker issues its next call: a transition, a stage record or a log line
WorkerCall ==
  /\ ~Crashed
  /\ \/ \E j \in Jobs, f \in StateSet, t \in StateSet :
          StartMove("p1", j, f, t, "DOWNLOAD_WORKER")
     \/ \E j \in Jobs, u \in {"COMPLETE", "FAILED"} : StartUpdate("p1", j, u)
     \/ \E j \in Jobs : StartLog("p1", j)

\* one await of the worker's call returns
WorkerStep ==
  \/ MvCheckSrc("p1") \/ MvCheckDst("p1") \/ MvRename("p1") \/ MvRead("p1")
  \/ MvEnd("p1")
  \/ WmEnsure("p1") \/ WmJson("p1")
  \/ LogResolve("p1") \/ LogEnsure("p1") \/ LogAppend("p1")
  \/ UpRead("p1")

\* the worker's process dies, between two calls or at an await of one: what
\* the call has done to the disk stays, the rest of it never runs
Crash ==
  /\ ~Crashed
  /\ proc' = [proc EXCEPT !["p1"] = [Idle EXCEPT !.result = "crashed"]]
  /\ UNCHANGED <<fs, nops, race, queue, run, now, worker>>

\* the Reclaimer's periodic scan of jobs/CLAIMED and jobs/RUNNING finds j and
\* invokes reclaimJob(j)
ReclaimerScan(j) ==
  /\ proc["p2"].pc = "idle"
  /\ fs[j]["CLAIMED"].exists \/ fs[j]["RUNNING"].exists
  /\ proc' = [proc EXCEPT !["p2"] = [Idle EXCEPT !.op = "reclaim",
                                      !.pc = "rc_read", !.job = j]]
  /\ UNCHANGED <<fs, nops, race, queue, run, now, worker>>

\* one await of the Reclaimer's reclaimJob call returns
ReclaimerStep ==
  \/ RcRead("p2")
  \/ MvCheckSrc("p2") \/ MvCheckDst("p2") \/ MvRename("p2") \/ MvRead("p2")
  \/ MvEnd("p2")
  \/ WmEnsure("p2") \/ WmJson("p2")
  \/ LogResolve("p2") \/ LogEnsure("p2") \/ LogAppend("p2")

NextCrash ==
  \/ WorkerCall
  \/ WorkerStep
  \/ Crash
  \/ \E j \in Jobs : ReclaimerScan(j)
  \/ ReclaimerStep

\* the event loop runs every pending continuation, and the scan recurs
SpecCrash ==
  /\ InitCrash
  /\ [][NextCrash]_vars
  /\ WF_vars(WorkerStep)
  /\ WF_vars(ReclaimerStep)
  /\ WF_vars(\E j \in Jobs : ReclaimerScan(j))

(* ---------------- the write of metadata.json, step by step ------------ *)
\* fs.writeJSON is fs.writeFile: the file is opened with flag "w", which
\* truncates it, and the JSON text is written afterwards. Between the two
\* the file holds no JSON document, or a prefix of one.

\* a metadata.json that is empty or cut short
Torn == [NoMeta EXCEPT !.state = "torn"]

\* fs.writeJSON(metadataPath, ..): the open truncates the file
WmOpen(p) ==
  LET j == proc[p].job
      s == proc[p].meta.state
  IN /\ proc[p].pc = "wm_json"
     /\ IF fs[j][s].exists
          THEN /\ fs' = [fs EXCEPT ![j][s].meta = Torn]
               /\ proc' = [proc EXCEPT ![p].pc = "wm_flush"]
          ELSE /\ Throw(p, "IOError")
               /\ UNCHANGED fs
     /\ UNCHANGED <<nops, race, queue, run, now, worker>>

\* fs.writeJSON(metadataPath, ..): the text is written and the file closed
WmFlush(p) ==
  LET j == proc[p].job
      s == proc[p].meta.state
  IN /\ proc[p].pc = "wm_flush"
     /\ IF fs[j][s].exists
          THEN /\ fs' = [fs EXCEPT ![j][s].meta = proc[p].meta]
               /\ Pop(p)
          ELSE /\ Throw(p, "IOError")
               /\ UNCHANGED fs
     /\ UNCHANGED <<nops, race, queue, run, now, worker>>

\* getJob(j) is called: const metadata = await filesystem.readMetadata(jobId)
StartGet(p, j) ==
  /\ proc[p].pc = "idle"
  /\ proc' = [proc EXCEPT ![p] = [Idle EXCEPT !.op = "get", !.pc = "gt_read",
                                   !.job = j]]
  /\ UNCHANGED <<fs, nops, race, queue, run, now, worker>>

\* readMetadata: fs.readJSON of the first metadata.json found; JSON.parse
\* throws a SyntaxError on a torn file
GtRead(p) ==
  LET m == readMetadata(proc[p].job)
  IN /\ proc[p].pc = "gt_read"
     /\ IF m = NoMeta THEN Throw(p, "JobNotFound")
        ELSE IF m = Torn THEN Throw(p, "SyntaxError")
        ELSE proc' = [proc EXCEPT ![p] = [Idle EXCEPT !.result = "ok",
                                                      !.meta = m]]
     /\ UNCHANGED <<fs, nops, race, queue, run, now, worker>>

\* a job is at rest in some state directory
InitTorn ==
  /\ \E b \in StateSet : fs = Stored(b)
  /\ proc = [p \in Procs |-> Idle]
  /\ nops = 0
  /\ race = "-"
  /\ queue = [s \in StageSet |-> <<>>]
  /\ run = NoRun
  /\ now = 1
  /\ worker = NoWorker

\* a writer (p1) updates stage records and leases and may die at any await;
\* a reader (p2) calls getJob
NextTorn ==
  \/ \E j \in Jobs, u \in Updates : ~Crashed /\ StartUpdate("p1", j, u)
  \/ UpRead("p1")
  \/ WmEnsure("p1")
  \/ WmOpen("p1")
  \/ WmFlush("p1")
  \/ Crash
  \/ \E j \in Jobs : StartGet("p2", j)
  \/ GtRead("p2")

SpecTorn == InitTorn /\ [][NextTorn]_vars

(* ---------------- the calls under a running clock ---------------- *)

\* the last millisecond the clock reaches
MaxNow == 3

\* a millisecond passes
Tick ==
  /\ now < MaxNow
  /\ now' = now + 1
  /\ UNCHANGED <<fs, proc, nops, race, queue, run, worker>>

NextClock ==
  \/ Next
  \/ Tick

SpecClock == Init /\ [][NextClock]_vars

(* ---------------- simulateProgress and simulateFailure, one call after the other ---------------- *)

\* simulateProgress(j) runs to its end; proc["p1"] keeps the job, the
\* metadata.state the call read and what it returned ("ok") or threw
Progress(j) ==
  LET r == simulateProgress(fs, j)
  IN /\ nops < MaxCalls
     /\ fs' = r.fs
     /\ proc' = [proc EXCEPT !["p1"] =
                   [Idle EXCEPT !.job = j, !.arg = MetaIn(fs, j).state,
                                !.result = r.err]]
     /\ nops' = nops + 1
     /\ UNCHANGED <<race, queue, run, now, worker>>

\* simulateFailure(j, reason) runs to its end
Fail(j) ==
  LET r == simulateFailure(fs, j)
  IN /\ nops < MaxCalls
     /\ fs' = r.fs
     /\ proc' = [proc EXCEPT !["p1"] =
                   [Idle EXCEPT !.job = j, !.to = "FAILED",
                                !.arg = MetaIn(fs, j).state, !.result = r.err]]
     /\ nops' = nops + 1
     /\ UNCHANGED <<race, queue, run, now, worker>>

NextFail ==
  \/ \E j \in Jobs : createJobFolder(j)
  \/ \E j \in Jobs : Progress(j)
  \/ \E j \in Jobs : Fail(j)
  \/ Tick

SpecFail == Init /\ [][NextFail]_vars

(* ---------------- a failed job, a retry and the polling loop ---------------- *)

\* a job whose download has failed on its last attempt: at rest in FAILED,
\* no entry on any queue; the polling loop is running or was never started
InitRetry ==
  /\ fs = Stored("FAILED")
  /\ \E w \in {NoWorker, [NoWorker EXCEPT !.isRunning = TRUE]} :
       /\ worker = w
       /\ proc = [p \in Procs |-> IF p = "p1" THEN PollTop(w) ELSE Idle]
  /\ nops = 0
  /\ race = "-"
  /\ queue = [s \in StageSet |-> <<>>]
  /\ run = NoRun
  /\ now = 1

\* the user retries, the polling loop is started and stopped and runs, time
\* passes. No queue holds an entry and retryJob adds none, so the stage
\* processors have nothing to take
NextRetry ==
  \/ \E j \in Jobs : Retry(j)
  \/ \E p \in Procs : startJobWorker(p)
  \/ stopJobWorker
  \/ \E p \in Procs : PlSleep(p)
  \/ \E p \in Procs : PlList(p)
  \/ PlDone
  \/ Tick

\* a step of the polling loop: one of its awaits returns
Polled == \E p \in Procs : PlSleep(p) \/ PlList(p)

\* what the end of a processJob call does to the worker's counters
JobEnded ==
  /\ worker.jobs # <<>>
  /\ \E i \in 1..Len(worker.jobs) :
       worker' = [worker EXCEPT
         !.activeJobs = @ - 1,
         !.jobs = SubSeq(@, 1, i - 1) \o SubSeq(@, i + 1, Len(@))]

\* Bull settles every entry, the awaits of the polling loop return and the
\* processJob calls it has started run to their end
SpecRetry ==
  /\ InitRetry /\ [][NextRetry]_vars
  /\ WF_queue(Settled) /\ WF_proc(Polled) /\ WF_worker(JobEnded)

(* ---------------- listing and the jobs table ---------------- *)

\* the id of a job an earlier run created and completed; readdir returns
\* the ids of a state directory in name order
Elder == "j0"

JobIds == <<"j0", "j1">>

\* the entries listAllJobs pushes, in the order of its two loops: for each
\* state directory, each folder in it, with the first metadata.json found
\* for the id; a folder whose id has no metadata.json anywhere is skipped
Scanned(F) ==
  LET cell(s, j) == IF j \in DOMAIN F /\ F[j][s].exists /\ MetaIn(F, j) # NoMeta
                      THEN <<[jobId |-> j, state |-> s, metadata |-> MetaIn(F, j)]>>
                      ELSE <<>>
      dir(s) == cell(s, JobIds[1]) \o cell(s, JobIds[2])
  IN dir(JOB_STATES[1]) \o dir(JOB_STATES[2]) \o dir(JOB_STATES[3])
       \o dir(JOB_STATES[4]) \o dir(JOB_STATES[5])

\* jobs.sort(createdAt descending): Array.prototype.sort is stable, entries
\* with equal createdAt keep the order of the scan
RECURSIVE Newest(_, _)
Newest(rs, c) ==
  LET At(r) == r.metadata.createdAt = c
  IN SelectSeq(rs, At) \o (IF c = 0 THEN <<>> ELSE Newest(rs, c - 1))

\* listAllJobs() on storage F; listJobs({}) sorts the same entries the same
\* way once more and keeps their order
listAllJobs(F) == Newest(Scanned(F), MaxNow)

\* initializeDatabaseFromFilesystem(): the table is emptied and the entries
\* of listAllJobs are inserted in order; jobId is UNIQUE in the table, so the
\* insert of a second entry for an id throws, the catch logs it, and the
\* entries after it are not inserted
Rebuilt(F) ==
  LET rs  == listAllJobs(F)
      dup == {i \in 1..Len(rs) : \E k \in 1..(i - 1) : rs[k].jobId = rs[i].jobId}
      n   == IF dup = {} THEN Len(rs)
             ELSE (CHOOSE i \in dup : \A k \in dup : i <= k) - 1
  IN {rs[i] : i \in 1..n}

\* syncJobToDatabase(j) on table T: the first entry of listAllJobs for j
\* replaces j's row (update or insert); no entry, the row is deleted
syncJobToDatabase(T, F, j) ==
  LET rs     == listAllJobs(F)
      hits   == {i \in 1..Len(rs) : rs[i].jobId = j}
      others == {r \in T : r.jobId # j}
  IN IF hits = {} THEN others
     ELSE others \cup {rs[CHOOSE i \in hits : \A k \in hits : i <= k]}

\* the table kept by a sync of the job after each operation on it, once the
\* last operation has returned
Replayed(F) ==
  syncJobToDatabase(syncJobToDatabase({}, F, JobIds[1]), F, JobIds[2])

\* the storage root with the elder job at rest in DONE next to Init's
InitTwo ==
  /\ \E b \in {"-"} \cup StateSet :
       fs = [j \in {Elder} \cup Jobs |->
               IF j \in Jobs THEN Stored(b)[j]
               ELSE Stored("DONE")[CHOOSE k \in Jobs : TRUE]]
  /\ proc = [p \in Procs |-> Idle]
  /\ nops = 0
  /\ race = "-"
  /\ queue = [s \in StageSet |-> <<>>]
  /\ run = NoRun
  /\ now = 1
  /\ worker = NoWorker

SpecTwo == InitTwo /\ [][Next]_vars

(* ====================================================================== *)
(* Properties                                                             *)
(* ====================================================================== *)

TypeOK ==
  /\ nops \in 0..MaxOps
  /\ \A p \in Procs : proc[p].pc = "idle" <=> proc[p].op = "idle"

\* the worker actors of the four pipeline stages
StageWorkers == {"DOWNLOAD_WORKER", "DEMUCS_WORKER", "LYRICS_WORKER",
                 "AUDACITY_WORKER"}

\* the transition table as the specification states it
FixedTable ==
  ({<<"NEW", "CLAIMED">>} \X ({"SYSTEM"} \cup StageWorkers))
  \cup ({<<"CLAIMED", "RUNNING">>} \X StageWorkers)
  \cup ({<<"CLAIMED", "NEW">>} \X {"SYSTEM"})
  \cup ({<<"RUNNING", "DONE">>} \X StageWorkers)
  \cup ({<<"RUNNING", "FAILED">>} \X StageWorkers)
  \cup ({<<"RUNNING", "NEW">>} \X {"SYSTEM"})
  \cup ({<<"DONE", "CLAIMED">>} \X ({"SYSTEM"} \cup (StageWorkers \ {"DOWNLOAD_WORKER"})))
  \cup ({<<"FAILED", "NEW">>} \X {"SYSTEM", "USER"})

FixedPairs == {e[1] : e \in FixedTable}

\* p issues a call in this step
Calls(p) == proc[p].pc = "idle" /\ nops' = nops + 1 /\ proc'[p] # proc[p]

\* the call chain of p ends in this step
Ends(p) == proc[p].pc # "idle" /\ proc'[p].pc = "idle"

Failures == {"InvalidTransition", "UnauthorizedActor", "NotFoundInState",
             "AlreadyExistsInTarget", "MoveFailed", "IOError", "JobNotFound",
             "NotFailed"}

\* C1: every job has its folder in at most one state directory, at every
\* point of every interleaving
C1_OneDirPerJob ==
  \A j \in Jobs : Cardinality(DirsOf(j)) <= 1

\* C2: at every observable point the state field of a job's metadata is the
\* name of the state directory that holds the folder
C2_MetaStateIsDir ==
  \A j \in Jobs, s \in StateSet :
    (fs[j][s].exists /\ fs[j][s].meta # NoMeta) => fs[j][s].meta.state = s

\* C3: of the concurrent moveJob(J, NEW, CLAIMED, actor) calls of authorized
\* actors on a job in NEW, every call that fails fails with NotFoundInState
\* or AlreadyExistsInTarget, no two of them perform the move, and J is in
\* CLAIMED only
C3_ClaimRaceFailures ==
  [][race = "NEW" =>
       /\ \A p \in Procs :
            (Ends(p) /\ proc[p].to = "CLAIMED" /\ proc'[p].result # "ok")
              => proc'[p].result \in {"NotFoundInState", "AlreadyExistsInTarget"}
       /\ \A p \in Procs : \A q \in Procs \ {p} : ~(Renamed(p)' /\ Renamed(q)')
       /\ \A j \in Jobs : DirsOf(j)' \in {{"NEW"}, {"CLAIMED"}}]_vars

\* C4: of the concurrent moveJob calls on one (job, fromState), whatever
\* their targets, at most one performs the move; a call that was overtaken
\* never moves the folder, and a call that fails has changed nothing
C4_AtMostOneMove ==
  [][/\ \A p \in Procs : \A q \in Procs \ {p} : ~(Renamed(p)' /\ Renamed(q)')
     /\ \A p \in Procs : ~(proc'[p].beaten /\ Renamed(p)')
     /\ \A p \in Procs :
          (Ends(p) /\ proc'[p].result # "ok") => (fs' = fs /\ ~Renamed(p))
     /\ \A p \in Procs : \A q \in Procs \ {p} :
          (Ends(p) /\ proc'[p].result = "ok") => proc[q].result # "ok"]_vars

\* a race from RUNNING (towards DONE, FAILED or NEW) in which one call moved
\* the job and another one failed at the rename
C4_Witness ==
  /\ race = "RUNNING"
  /\ \E p \in Procs, q \in Procs :
       /\ proc[p].result = "ok"
       /\ proc[q].result = "MoveFailed"
  /\ \E j \in Jobs : DirsOf(j) # {"RUNNING"}

\* C5: a writeMetadata never changes which state directories hold a folder
\* of the job, and writes only into the directory that holds the job
C5_WriteGoesToCurrentDir ==
  [][\A p \in Procs :
       (proc[p].pc \in {"wm_ensure", "wm_json"} /\ proc'[p] # proc[p])
         => LET j == proc[p].job
            IN /\ {s \in StateSet : fs'[j][s].exists} = DirsOf(j)
               /\ \A s \in StateSet :
                    fs'[j][s] # fs[j][s] => s = getJobStateDir(j)]_vars

\* what a moveJob call with a (from, to) pair outside the table leaves in
\* its call chain at the first await
IllegalPairCalls ==
  {MoveCall(j, e[1], e[2], a) :
     j \in Jobs, e \in (StateSet \X StateSet) \ FixedPairs, a \in Actor}

\* C6: a moveJob call with a (from, to) pair outside the table ends at once
\* with InvalidTransition and the filesystem is unchanged
C6_IllegalPairRejected ==
  [][\A p \in Procs :
       (Calls(p) /\ proc'[p] \in IllegalPairCalls)
         => /\ proc'[p].pc = "idle"
            /\ proc'[p].result = "InvalidTransition"
            /\ fs' = fs]_vars

\* a job exists, a call was rejected as an invalid transition, and the job
\* is where it was created
C6_Witness ==
  \E p \in Procs, j \in Jobs :
    /\ proc[p].result = "InvalidTransition"
    /\ DirsOf(j) = {"NEW"}
    /\ fs[j]["NEW"].log = <<Msg("Created", "-", "-")>>

\* C7: a moveJob call with a pair of the table and an actor the table does
\* not list for it ends at once with UnauthorizedActor and the filesystem is
\* unchanged
C7_UnauthorizedRejected ==
  [][\A p \in Procs : Calls(p) =>
       \A j \in Jobs, f \in StateSet, t \in StateSet, a \in Actor :
         (/\ <<f, t>> \in FixedPairs
          /\ <<<<f, t>>, a>> \notin FixedTable
          /\ StartMove(p, j, f, t, a))
           => /\ proc'[p].pc = "idle"
              /\ proc'[p].result = "UnauthorizedActor"
              /\ fs' = fs]_vars

\* what a moveJob call with a (from, to, actor) triple outside the table
\* leaves in its call chain at the first await
OffTableCalls ==
  {MoveCall(j, e[1][1], e[1][2], e[2]) :
     j \in Jobs, e \in ((StateSet \X StateSet) \X Actor) \ FixedTable}

C9_DoneToClaimedAccepted ==
  [][\A p \in Procs : Calls(p) =>
       \A j \in Jobs, a \in {"SYSTEM"} \cup (StageWorkers \ {"DOWNLOAD_WORKER"}) :
         StartMove(p, j, "DONE", "CLAIMED", a)
           => proc'[p].result \notin {"InvalidTransition", "UnauthorizedActor"}]_vars

\* C10: the worker of every stage passes the validation for CLAIMED ->
\* RUNNING, RUNNING -> DONE and RUNNING -> FAILED
C10_StageWorkerAuthorized ==
  [][\A p \in Procs : Calls(p) =>
       \A j \in Jobs, a \in StageWorkers,
          e \in {<<"CLAIMED", "RUNNING">>, <<"RUNNING", "DONE">>, <<"RUNNING", "FAILED">>} :
         StartMove(p, j, e[1], e[2], a)
           => proc'[p].result \notin {"InvalidTransition", "UnauthorizedActor"}]_vars

(* ---------------- the pipeline ---------------- *)

\* the state directories of storage F that hold a folder for j
StateDirsIn(F, j) == {s \in StateSet : F[j][s].exists}

\* job j is at rest in state directory d: one folder, and its metadata
\* names d
AtRest(j, d) == DirsOf(j) = {d} /\ readMetadata(j).state = d

\* the moveJob calls of a stage that carries a job through a.b.c, accepted
Accepted(path, a) ==
  [i \in 1..(Len(path) - 1) |->
     [from |-> path[i], to |-> path[i + 1], actor |-> a, res |-> "ok"]]

\* C11: once stage 1 has completed a job (at rest in DONE, download
\* COMPLETE), the separation processor invoked on it with successful work
\* issues moveJob DONE -> CLAIMED -> RUNNING -> DONE, every call accepted,
\* and leaves the job in DONE with download and separation COMPLETE
C11_StageTwoCarriesJob ==
  [][\A w \in {"demucs", "demucs_mock"} :
       LET j == Head(queue["separation"]).job
       IN (/\ Process(w, "ok")
           /\ AtRest(j, "DONE")
           /\ readMetadata(j).download = "COMPLETE"
           /\ readMetadata(j).separation = "-")
          => /\ run'.moves =
                  Accepted(<<"DONE", "CLAIMED", "RUNNING", "DONE">>, ActorOf(w))
             /\ run'.outcome = "returned"
             /\ StateDirsIn(fs', j) = {"DONE"}
             /\ MetaIn(fs', j).download = "COMPLETE"
             /\ MetaIn(fs', j).separation = "COMPLETE"]_vars

(* ---------------- reclaim ---------------- *)

\* the last line of the log of j, and the one before it
LastLinesIn(F, j) ==
  LET d == StateDirIn(F, j)
      l == IF d = "-" THEN <<>> ELSE F[j][d].log
  IN IF Len(l) < 2 THEN l ELSE SubSeq(l, Len(l) - 1, Len(l))

LastLines(j) == LastLinesIn(fs, j)

\* C12: whenever no call is in flight, every job with a folder in CLAIMED or
\* RUNNING either has a valid lease or is reclaimable: reclaimJob called on it
\* returns without error and leaves the job in NEW
C12_OwnedOrReclaimable ==
  \A j \in Jobs :
    (Quiet /\ DirsOf(j) \cap {"CLAIMED", "RUNNING"} # {})
      => \/ readMetadata(j).lease = "future"
         \/ /\ SeqReclaim(fs, j).err = "ok"
            /\ StateDirsIn(SeqReclaim(fs, j).fs, j) = {"NEW"}

\* whether sequence a is a prefix of sequence b
IsPrefix(a, b) == Len(a) <= Len(b) /\ SubSeq(b, 1, Len(a)) = a

\* C13: once a worker has crashed with the job's folder in RUNNING and no
\* valid lease, the Reclaimer eventually has the job at rest in NEW, the log
\* lines written before the worker took the job still in its log
C13_CrashedJobReturnsToNew ==
  \A j \in Jobs :
    (Crashed /\ fs[j]["RUNNING"].exists /\ readMetadata(j).lease # "future")
      ~> (/\ AtRest(j, "NEW")
          /\ IsPrefix(PathLog("CLAIMED"), fs[j]["NEW"].log))

\* C14: called while no other call runs, reclaimJob on a job at rest in
\* CLAIMED or RUNNING whose lease is absent or in the past goes on to
\* moveJob(J, state, NEW, SYSTEM); the call returns with the job at rest in
\* NEW and "Transitioned to NEW by SYSTEM", "Reclaimed from <state>" as the
\* last log lines; a moveJob(J, NEW, CLAIMED, ..) of an authorized actor
\* that comes next on J (the "Reclaimed" line is the last one before the
\* call's own) returns with the job at rest in CLAIMED
C14_ReclaimReturnsToNew ==
  [][\A p \in Procs :
       LET j == proc[p].job
           m == readMetadata(j)
       IN /\ (/\ proc[p].pc = "rc_read"
              /\ proc'[p] # proc[p]
              /\ m.state \in {"CLAIMED", "RUNNING"}
              /\ AtRest(j, m.state)
              /\ m.lease # "future")
             => proc'[p] = [proc[p] EXCEPT !.pc = "mv_src", !.from = m.state,
                                           !.to = "NEW", !.actor = "SYSTEM",
                                           !.ret = <<"rc_log">>]
          /\ (/\ Ends(p)
              /\ proc[p].op = "reclaim"
              /\ proc[p].from \in {"CLAIMED", "RUNNING"})
             => /\ proc'[p].result = "ok"
                /\ StateDirsIn(fs', j) = {"NEW"}
                /\ fs'[j]["NEW"].meta.state = "NEW"
                /\ LastLinesIn(fs', j) =
                     <<Msg("Transitioned", "NEW", "SYSTEM"),
                       Msg("Reclaimed", proc[p].from, "-")>>
          /\ (/\ Ends(p)
              /\ proc[p].op = "move"
              /\ proc[p].from = "NEW"
              /\ proc[p].to = "CLAIMED"
              /\ LET l == LastLines(j)
                 IN \/ l # <<>> /\ l[Len(l)].k = "Reclaimed"
                    \/ /\ proc[p].pc = "mv_end"
                       /\ Len(l) = 2
                       /\ l[1].k = "Reclaimed")
             => /\ proc'[p].result = "ok"
                /\ StateDirsIn(fs', j) = {"CLAIMED"}
                /\ fs'[j]["CLAIMED"].meta.state = "CLAIMED"]_vars

\* a job without a valid lease, reclaimed from RUNNING and then claimed again
C14_Witness ==
  \E j \in Jobs :
    /\ Quiet
    /\ AtRest(j, "CLAIMED")
    /\ readMetadata(j).lease # "future"
    /\ \E a \in Actor :
         LastLines(j) = <<Msg("Reclaimed", "RUNNING", "-"),
                          Msg("Transitioned", "CLAIMED", a)>>

\* C15: a reclaimJob call that reads J's metadata while J's lease is valid,
\* or while J's folder is in NEW, DONE or FAILED, returns there as a no-op:
\* no error, and directory, metadata and log as they were; other calls on J
\* may be in flight
C15_ReclaimNoOp ==
  [][\A p \in Procs :
       LET j == proc[p].job
       IN (/\ proc[p].pc = "rc_read"
           /\ proc'[p] # proc[p]
           /\ \/ readMetadata(j).lease = "future"
              \/ getJobStateDir(j) \in {"NEW", "DONE", "FAILED"})
          => /\ proc'[p] = [Idle EXCEPT !.result = "noop"]
             /\ fs' = fs]_vars

(* ---------------- the stage processors ---------------- *)

\* the stage before st in the pipeline
PrevStage(st) ==
  CASE st = "separation" -> "download"
    [] st = "lyrics"     -> "separation"
    [] st = "audacity"   -> "lyrics"
    [] OTHER             -> "-"

\* the stages after st in the pipeline
LaterStages(st) ==
  {Stages[k] : k \in {i \in 1..Len(Stages) :
                        \E n \in 1..Len(Stages) : Stages[n] = st /\ n < i}}

\* the worker actor of a stage
StageActor(st) ==
  CASE st = "download"   -> "DOWNLOAD_WORKER"
    [] st = "separation" -> "DEMUCS_WORKER"
    [] st = "lyrics"     -> "LYRICS_WORKER"
    [] OTHER             -> "AUDACITY_WORKER"

\* processor w is invoked in this step
Invoked(w) ==
  \/ \E work \in WorkResults(w) : Process(w, work)
  \/ w = "ytdlp" /\ YtDlpWrite

\* the invocation of this step returns at once, the job untouched
SkipsCleanly(w) ==
  /\ fs' = fs
  /\ run'.outcome = "returned"
  /\ run'.moves = <<>>
  /\ ~run'.worked

\* C16: a processor of stage 2, 3 or 4 invoked on a job whose record of the
\* preceding stage is not COMPLETE returns without a moveJob call, without
\* running the stage's work and without changing the job
C16_StagesInOrder ==
  [][\A w \in Workers \ {"ytdlp"} :
       LET m == readMetadata(Head(queue[StageOf(w)]).job)
       IN (Invoked(w) /\ m # NoMeta /\ m[PrevStage(StageOf(w))] # "COMPLETE")
          => SkipsCleanly(w)]_vars

\* C17: an invocation that ends with the job moved to FAILED adds no entry
\* to the queue of a later stage, and a later stage's processor invoked on a
\* job at rest in FAILED returns without touching it
C17_NoDownstreamAfterFailure ==
  [][\A w \in Workers :
       LET st == StageOf(w)
           j  == Head(queue[st]).job
       IN /\ (/\ Invoked(w)
              /\ ~fs[j]["FAILED"].exists
              /\ fs'[j]["FAILED"].exists)
             => \A lt \in LaterStages(st) : queue'[lt] = queue[lt]
          /\ (/\ Invoked(w)
              /\ st # "download"
              /\ AtRest(j, "FAILED"))
             => SkipsCleanly(w)]_vars

\* C18: a processor invoked on a job whose record of the processor's own
\* stage is COMPLETE returns without a moveJob call, without running the
\* stage's work and without writing metadata, artifacts or log lines
C18_CompletedStageSkipped ==
  [][\A w \in Workers :
       LET m == readMetadata(Head(queue[StageOf(w)]).job)
       IN (Invoked(w) /\ m # NoMeta /\ m[StageOf(w)] = "COMPLETE")
          => SkipsCleanly(w)]_vars

\* the job is at rest in RUNNING when processor w, invoked on storage F, has
\* run its work
RunningAtWork(F, j, w) ==
  LET b == Begun(F, j, w)
  IN /\ b.err = "ok"
     /\ StateDirsIn(b.fs, j) = {"RUNNING"}
     /\ MetaIn(b.fs, j).state = "RUNNING"

\* C19: a processor that meets an exception after its work, the job being in
\* RUNNING, ends with the job in FAILED, moved there by
\* moveJob(J, RUNNING, FAILED, <the stage's worker actor>), and throws the
\* exception on to the queue layer
C19_ExceptionMovesToFailed ==
  [][\A w \in Workers :
       LET st == StageOf(w)
           j  == Head(queue[st]).job
           mv == run'.moves
       IN (Process(w, "throw") /\ RunningAtWork(fs, j, w))
          => /\ run'.outcome = "threw"
             /\ mv # <<>>
             /\ mv[Len(mv)] = [from |-> "RUNNING", to |-> "FAILED",
                               actor |-> StageActor(st), res |-> "ok"]
             /\ StateDirsIn(fs', j) = {"FAILED"}]_vars

\* C20: a processor whose work times out, the job being in RUNNING, issues
\* no moveJob to FAILED and leaves the job at rest in RUNNING
C20_TimeoutLeavesRunning ==
  [][\A w \in {"demucs", "demucs_mock"} :
       LET st == StageOf(w)
           j  == Head(queue[st]).job
           mv == run'.moves
       IN (Process(w, "timeout") /\ RunningAtWork(fs, j, w))
          => /\ \A i \in DOMAIN mv : mv[i].to # "FAILED"
             /\ StateDirsIn(fs', j) = {"RUNNING"}
             /\ MetaIn(fs', j).state = "RUNNING"]_vars

(* ---------------- termination ---------------- *)

\* j has been submitted: it is at rest in NEW with an entry on the download
\* queue
Entered(j) ==
  /\ AtRest(j, "NEW")
  /\ \E i \in DOMAIN queue["download"] : queue["download"][i].job = j

\* C21: every job that has entered the pipeline eventually is in DONE with
\* the record of the last stage COMPLETE, or in FAILED
C21_JobTerminates ==
  \A j \in Jobs :
    Entered(j) ~> \/ fs[j]["DONE"].exists /\ readMetadata(j).audacity = "COMPLETE"
                  \/ fs[j]["FAILED"].exists

\* every step of a stage processor settles a queue entry
EverySettled == [][Settled]_vars

\* the queues of a submitted job drain
Drained == <>(\A st \in StageSet : queue[st] = <<>>)

(* ---------------- retry ---------------- *)

\* C22: retryJob on a job at rest in FAILED leaves it at rest in NEW, with
\* "[USER] Retrying job" and "Transitioned to NEW by USER" as the last log
\* lines and with no stage record left FAILED, whichever stage had failed
C22_RetryClearsFailedStage ==
  [][\A j \in Jobs :
       (Retry(j) /\ AtRest(j, "FAILED"))
         => /\ StateDirsIn(fs', j) = {"NEW"}
            /\ MetaIn(fs', j).state = "NEW"
            /\ LastLinesIn(fs', j) = <<Msg("Retrying", "-", "-"),
                                       Msg("Transitioned", "NEW", "USER")>>
            /\ \A st \in StageSet : MetaIn(fs', j)[st] # "FAILED"]_vars

\* C23: a retryJob call that reads J's metadata while J is in NEW, CLAIMED,
\* RUNNING or DONE (J has a folder, and none in FAILED) throws there, before
\* it has written anything: J's folders, metadata and log stay as they are.
\* So does a second retryJob after a successful one.
C23_RetryOnlyFromFailed ==
  [][\A p \in Procs :
       LET j == proc[p].job
       IN (/\ proc[p].pc = "rt_read"
           /\ proc'[p] # proc[p]
           /\ DirsOf(j) # {}
           /\ ~fs[j]["FAILED"].exists)
          => /\ proc'[p].pc = "idle"
             /\ proc'[p].result \in Failures
             /\ fs' = fs]_vars

(* ---------------- metadata writes ---------------- *)

\* the fields in which two metadata records differ
Differ(a, b) == {f \in DOMAIN a : a[f] # b[f]}

\* C24: the record a call writes differs from the record on disk in no
\* more than the one field the call changes: the call's read-modify-write is
\* not interleaved with another writer's, and no update is lost
C24_NoLostUpdate ==
  [][\A p \in Procs :
       LET j == proc[p].job
       IN (/\ proc[p].pc = "wm_json"
           /\ proc'[p] # proc[p]
           /\ readMetadata(j) # NoMeta)
          => Cardinality(Differ(proc[p].meta, readMetadata(j))) <= 1]_vars

\* C25: a readMetadata that runs while a writeMetadata is in flight, or
\* after the writer died in one, returns a complete record: the one before
\* the write or the one written
C25_ReadsWholeRecord ==
  [][\A p \in Procs :
       (proc[p].pc = "gt_read" /\ proc'[p] # proc[p])
         => /\ proc'[p].result = "ok"
            /\ proc'[p].meta \notin {NoMeta, Torn}]_vars

(* ---------------- the directory is the state ---------------- *)

\* no call is in flight, j has one folder, in directory d, and its
\* metadata.json names another state
Diverged(j, d) ==
  /\ Quiet
  /\ DirsOf(j) = {d}
  /\ readMetadata(j) # NoMeta
  /\ readMetadata(j).state # d

\* C26: when J's folder is in directory d and metadata.state says otherwise,
\* the calls go by d: listJobs lists J under d and under no other state;
\* reclaimJob is a no-op for d in NEW, DONE, FAILED and brings J to NEW for
\* d in CLAIMED, RUNNING (no valid lease); moveJobIdempotent returns true
\* unchanged for a target d and fails for an expected state other than d
C26_DirectoryWins ==
  \A j \in Jobs : \A d \in StateSet :
    Diverged(j, d) =>
      /\ \A s \in StateSet : j \in listJobs(fs, s) <=> s = d
      /\ IF d \in {"NEW", "DONE", "FAILED"} \/ readMetadata(j).lease = "future"
           THEN SeqReclaim(fs, j) = Ran(fs, "noop")
           ELSE /\ SeqReclaim(fs, j).err = "ok"
                /\ StateDirsIn(SeqReclaim(fs, j).fs, j) = {"NEW"}
      /\ \A f \in StateSet, a \in Actor :
           SeqMoveIdem(fs, j, f, d, a) = Ran(fs, "ok")
      /\ \A f \in StateSet \ {d}, t \in StateSet \ {d}, a \in Actor :
           SeqMoveIdem(fs, j, f, t, a) = Ran(fs, "UnexpectedState")

(* ---------------- the log ---------------- *)

\* readJobLogs(j) on storage F: the lines of logs/job.log in the directory
\* getJobStateDir finds
JobLogIn(F, j) ==
  LET d == StateDirIn(F, j)
  IN IF d = "-" THEN <<>> ELSE F[j][d].log

\* C27: the log of a job only grows at its end: in every step, the lines
\* readJobLogs returned before the step are the first lines it returns after
\* it, in the same order
C27_LogAppendOnly ==
  [][\A j \in Jobs : IsPrefix(JobLogIn(fs, j), JobLogIn(fs', j))]_vars

(* ---------------- artifacts ---------------- *)

\* the artifacts under the folder getJobStateDir finds for j
ArtIn(F, j) ==
  LET d == StateDirIn(F, j)
  IN IF d = "-" THEN {} ELSE F[j][d].art

\* C28: once a step has written an artifact of a job, writeArtifact for that
\* same artifact fails and leaves the storage as it is
C28_ArtifactWrittenOnce ==
  [][\A j \in Jobs : \A type \in ArtIn(fs', j) \ ArtIn(fs, j) :
       /\ SeqArtifact(fs', j, type).err # "ok"
       /\ SeqArtifact(fs', j, type).fs = fs']_vars

(* ---------------- updatedAt ---------------- *)

\* C29: every step that changes the metadata record of a job leaves a
\* strictly greater updatedAt in it
C29_UpdatedAtIncreases ==
  [][\A j \in Jobs :
       (/\ MetaIn(fs, j) # NoMeta
        /\ MetaIn(fs', j) # NoMeta
        /\ MetaIn(fs', j) # MetaIn(fs, j))
         => MetaIn(fs', j).updatedAt > MetaIn(fs, j).updatedAt]_vars

(* ---------------- moveJobIdempotent ---------------- *)

\* C30: a moveJobIdempotent(j, f, t, a) call on a job at rest in d returns
\* true and changes nothing when d = t; throws the unexpected-state error and
\* changes nothing when d is neither f nor t; returns or throws what
\* moveJob(j, f, t, a) does, with the same storage after it, when d = f # t;
\* and the same call made again after a true return returns true and
\* changes nothing
C30_MoveJobIdempotent ==
  [][\A j \in Jobs, d \in StateSet :
       LET c == proc'["p1"]
       IN (nops' = nops + 1 /\ c.job = j /\ AtRest(j, d)) =>
            /\ d = c.to => c.result = "ok" /\ fs' = fs
            /\ d \notin {c.from, c.to} =>
                 c.result = "UnexpectedState" /\ fs' = fs
            /\ (d = c.from /\ d # c.to) =>
                 /\ Ran(fs', c.result) = SeqMove(fs, j, c.from, c.to, c.actor)
                 /\ c.result = "ok" => StateDirsIn(fs', j) = {c.to}
                 /\ c.result # "ok" => fs' = fs
            /\ c.result = "ok" =>
                 SeqMoveIdem(fs', j, c.from, c.to, c.actor) = Ran(fs', "ok")]_vars

\* a call moved the job from NEW to CLAIMED and the same call, made again,
\* found it in CLAIMED and returned true
C30_Witness ==
  \E j \in Jobs :
    /\ nops = 2
    /\ proc["p1"] = [Idle EXCEPT !.job = j, !.from = "NEW", !.to = "CLAIMED",
                                 !.actor = "DOWNLOAD_WORKER", !.arg = "CLAIMED",
                                 !.result = "ok"]
    /\ AtRest(j, "CLAIMED")
    /\ JobLogIn(fs, j) = <<Msg("Created", "-", "-"),
                           Msg("Transitioned", "CLAIMED", "DOWNLOAD_WORKER")>>

(* ---------------- DONE is terminal ---------------- *)

C31_IndexIsFunctionOfDisk ==
  Quiet =>
    /\ \A j \in DOMAIN fs :
         StateDirsIn(fs, j) # {}
           => Cardinality({r \in Rebuilt(fs) : r.jobId = j}) = 1
    /\ Rebuilt(fs) = Replayed(fs)

(* ---------------- the order of a listing ---------------- *)

\* entry a comes before entry b: later createdAt, or the same createdAt and
\* the id earlier in name order
Before(a, b) ==
  \/ a.metadata.createdAt > b.metadata.createdAt
  \/ /\ a.metadata.createdAt = b.metadata.createdAt
     /\ \E i, k \in 1..Len(JobIds) : i < k /\ JobIds[i] = a.jobId /\ JobIds[k] = b.jobId

\* C34: whenever no call is in flight, no entry of the listing stands after
\* an entry it comes before
C34_ListingOrder ==
  Quiet =>
    LET rs == listAllJobs(fs)
    IN \A i, k \in 1..Len(rs) : i < k => ~Before(rs[k], rs[i])

(* ---------------- the concurrency ceiling ---------------- *)

\* C32: the polling job worker never has more than MAX_CONCURRENT_JOBS
\* processJob calls in flight
C32_ConcurrencyCeiling ==
  /\ worker.activeJobs <= MAX_CONCURRENT_JOBS
  /\ Len(worker.jobs) <= MAX_CONCURRENT_JOBS

(* ---------------- a failed enqueue of the next stage ---------------- *)

\* the invocation recorded in r moved its job to DONE
Completed(r) ==
  /\ r.moves # <<>>
  /\ r.moves[Len(r.moves)] \in
       {[from |-> "RUNNING", to |-> "DONE", actor |-> a, res |-> "ok"] : a \in Actor}

\* C35: when a processor has moved its job to DONE and an enqueue of the
\* next stage fails (the processor's own, or the one of the "completed"
\* handler), the job has its folder in DONE, its metadata reads DONE with
\* the stage's record COMPLETE,
\* the invocation has returned normally, the entry is not put back on the
\* stage's queue and no entry is added by the failed enqueue
C35_EnqueueFailureOnlyLogged ==
  [][\A enq \in Enqueued, hook \in Enqueued, w \in Workers :
       (/\ "fail" \in {enq, hook}
        /\ \/ w = "ytdlp" /\ YtDlpMoveWith(enq, hook)
           \/ enq = hook /\ ProcessWith(w, "ok", hook)
        /\ Completed(run'))
         => /\ fs'[run'.job]["DONE"].exists
            /\ MetaIn(fs', run'.job).state = "DONE"
            /\ MetaIn(fs', run'.job)[StageOf(w)] = "COMPLETE"
            /\ run'.outcome = "returned"
            /\ queue'[StageOf(w)] = Tail(queue[StageOf(w)])
            /\ hook = "fail" /\ (w = "ytdlp" => enq = "fail")
                 => \A st \in StageSet \ {StageOf(w)} : queue'[st] = queue[st]]_vars

\* the download processor has completed the job, its own enqueue of the
\* separation stage failed and so did the handler's: the job is in DONE with
\* the warning as the last line of its log, and every queue is empty
C35_Witness ==
  /\ run.worker = "ytdlp" /\ run.outcome = "returned" /\ Completed(run)
  /\ AtRest(run.job, "DONE")
  /\ LastLines(run.job) # <<>>
  /\ LastLines(run.job)[Len(LastLines(run.job))] = Msg("Worker", "enqueue_warning", "-")
  /\ \A st \in StageSet : queue[st] = <<>>

(* ---------------- the polling worker's own writes ---------------- *)

\* C36: a processJob call of the polling worker that takes the job out of
\* NEW leaves no folder for it in jobs/NEW, and the lines it logged are in
\* the log of the directory that holds the job
C36_WorkerWritesFollowJob ==
  [][\A j \in Jobs :
       (JobWorker(j) /\ MetaIn(fs', j).state # "NEW")
         => /\ ~fs'[j]["NEW"].exists
            /\ \E i \in 1..Len(fs'[j][MetaIn(fs', j).state].log) :
                 fs'[j][MetaIn(fs', j).state].log[i].k = "JobWorker"]_vars

(* ---------------- one worker per job ---------------- *)

\* the download processor is running on j: it has claimed the job and
\* written its download, and has not returned
Held(j) ==
  /\ queue["download"] # <<>>
  /\ Head(queue["download"]).active
  /\ Head(queue["download"]).job = j

\* C37: while a processor is running on a job it claimed, reclaimJob leaves
\* the job where it is, and the job is not listed as NEW for another worker
\* to claim
C37_HeldJobNotReclaimed ==
  \A j \in Jobs :
    Held(j) => /\ SeqReclaim(fs, j).fs = fs
               /\ j \notin listJobs(SeqReclaim(fs, j).fs, "NEW")

(* ---------------- a processor invoked on a failed job ---------------- *)

\* C38: a processor invoked on a job at rest in FAILED does not run the
\* stage's work, calls no moveJob, and leaves the job's folders, metadata
\* and artifacts as they are
C38_FailedJobUntouched ==
  [][\A w \in Workers :
       LET j == Head(queue[StageOf(w)]).job
       IN (Invoked(w) /\ AtRest(j, "FAILED"))
          => /\ ~run'.worked
             /\ run'.moves = <<>>
             /\ \A s \in StateSet :
                  /\ fs'[j][s].exists = fs[j][s].exists
                  /\ fs'[j][s].meta = fs[j][s].meta
                  /\ fs'[j][s].art = fs[j][s].art]_vars

(* ---------------- after a retry ---------------- *)

\* retryJob has returned job j to NEW
Retried(j) ==
  /\ AtRest(j, "NEW")
  /\ \E i \in 1..Len(fs[j]["NEW"].log) : fs[j]["NEW"].log[i].k = "Retrying"

\* stage 1 has come to an end on job j: the job has a download record, or
\* has reached DONE or FAILED
StageOneEnded(j) ==
  \/ MetaIn(fs, j).download \in {"COMPLETE", "FAILED"}
  \/ MetaIn(fs, j).state \in {"DONE", "FAILED"}

\* C39: a job that retryJob has returned to NEW is eventually picked up and
\* processed again from stage 1: its download stage comes to an end once more
C39_RetriedJobIsProcessed ==
  \A j \in Jobs : Retried(j) ~> StageOneEnded(j)

(* ---------------- simulateFailure ---------------- *)

\* C40: simulateFailure on a job at rest in CLAIMED or RUNNING leaves it at
\* rest in FAILED with the download record FAILED; on a job in NEW or DONE it
\* throws and changes nothing
C40_SimulateFailure ==
  [][\A j \in Jobs :
       Fail(j) =>
         /\ (AtRest(j, "CLAIMED") \/ AtRest(j, "RUNNING"))
              => /\ proc'["p1"].result = "ok"
                 /\ StateDirsIn(fs', j) = {"FAILED"}
                 /\ MetaIn(fs', j).state = "FAILED"
                 /\ MetaIn(fs', j).download = "FAILED"
         /\ (AtRest(j, "NEW") \/ AtRest(j, "DONE"))
              => /\ proc'["p1"].result = "CannotFail"
                 /\ fs' = fs]_vars

====
